---- MODULE Spec2Model ----
(***************************************************************************)
(* The check-session controller of the iced editor (src/src/app/state.rs), *)
(* the API worker thread it talks to (src/src/app/api_worker.rs) and the   *)
(* literal-substring mapper and normalizer that produce the suggestions    *)
(* (src/src/api.rs).                                                       *)
(*                                                                         *)
(* A text is a sequence of bytes, each byte written as a one-character     *)
(* string.  Option<T> is a set with at most one element.  A Suggestion id  *)
(* (a fresh UUID in the code) is the pair <<request id, creation index>>:  *)
(* unique per created suggestion, as a UUID is.  The message and severity  *)
(* of a suggestion are display data and are left out.                      *)
(***************************************************************************)
EXTENDS Integers, Sequences, FiniteSets, TLC

(* ------------------------------ bounds --------------------------------- *)
MaxMatches == 1
MaxReq == 2
MaxTime == 2

(* ----------------------- program constants ----------------------------- *)
NeverThreshold == 5000
HistoryMaxPairs == 5

(* ------------------------------ Option --------------------------------- *)
None == {}
Some(x) == {x}
Unwrap(o) == CHOOSE x \in o : TRUE

Min(S) == CHOOSE x \in S : \A y \in S : x <= y

(* ------------------------------- text ---------------------------------- *)
Chars == {"a", "A", " "}
Whitespace == {" "}
Strs(n) == UNION {[1..k -> Chars] : k \in 0..n}
\* the documents tried: empty, whitespace only, a letter in either case
Docs == {<<>>, <<" ">>, <<"a">>, <<"A">>}

\* str::trim().is_empty()
trim_is_empty(text) == \A i \in 1..Len(text) : text[i] \in Whitespace

\* char::to_lowercase of a one-byte character
lower_char(c) == IF c = "A" THEN "a" ELSE c

\* str::to_lowercase.  "I1" "I2" are the two bytes of U+0130 (capital I with
\* dot above), whose lower case is the three bytes of "i" followed by U+0307.
RECURSIVE to_lowercase(_)
to_lowercase(text) ==
  IF text = <<>> THEN <<>>
  ELSE IF Len(text) >= 2 /\ text[1] = "I1" /\ text[2] = "I2"
  THEN <<"i", "c1", "c2">> \o to_lowercase(SubSeq(text, 3, Len(text)))
  ELSE <<lower_char(text[1])>> \o to_lowercase(Tail(text))

\* text[start..end], 0-based half-open byte range
Slice(text, start, end) == SubSeq(text, start + 1, end)

\* str::find: the byte index of the first occurrence, or None
find(text, pat) ==
  LET hits == {i \in 0..Len(text) :
                 /\ i + Len(pat) <= Len(text)
                 /\ Slice(text, i, i + Len(pat)) = pat}
  IN IF hits = {} THEN None ELSE Some(Min(hits))

(* --------------------------- suggestions ------------------------------- *)
\* Suggestion::new
Suggestion_new(id, offset, original, replacement) ==
  [id |-> id, offset |-> offset, length |-> Len(original),
   original |-> original, replacement |-> replacement]

\* fault: a present but empty replacement is not a reason to drop the match
map_match_keeps_empty_replacement(text, m, acc, request_id) ==
  IF m.original = <<>> THEN acc
  ELSE IF m.replacement # None /\ Unwrap(m.replacement) = m.original
  THEN acc
  ELSE LET pos == find(text, m.original)
           low == find(to_lowercase(text), to_lowercase(m.original))
           offset == IF pos # None THEN pos ELSE low
       IN IF offset = None THEN acc
          ELSE Append(acc, Suggestion_new(<<request_id, Len(acc) + 1>>,
                                          Unwrap(offset), m.original, m.replacement))

\* the first loop of convert_matches_to_suggestions: one match
map_match(text, m, acc, request_id) ==
  IF m.original = <<>> THEN acc
  ELSE IF m.replacement # None
          /\ (Unwrap(m.replacement) = <<>> \/ Unwrap(m.replacement) = m.original)
  THEN acc
  ELSE LET pos == find(text, m.original)
           low == find(to_lowercase(text), to_lowercase(m.original))
           offset == IF pos # None THEN pos ELSE low
       IN IF offset = None THEN acc
          ELSE Append(acc, Suggestion_new(<<request_id, Len(acc) + 1>>,
                                          Unwrap(offset), m.original, m.replacement))

RECURSIVE map_matches(_, _, _, _)
map_matches(text, matches, acc, request_id) ==
  IF matches = <<>> THEN acc
  ELSE map_matches(text, Tail(matches),
                   map_match(text, Head(matches), acc, request_id), request_id)

\* fault: a suggestion goes before those of the same offset (not stable)
RECURSIVE insert_by_offset_before_ties(_, _)
insert_by_offset_before_ties(sorted, s) ==
  IF sorted = <<>> THEN <<s>>
  ELSE IF Head(sorted).offset < s.offset
       THEN <<Head(sorted)>> \o insert_by_offset_before_ties(Tail(sorted), s)
       ELSE <<s>> \o sorted

\* Vec::sort_by_key(|s| s.offset): a stable sort, here by insertion
RECURSIVE insert_by_offset(_, _)
insert_by_offset(sorted, s) ==
  IF sorted = <<>> THEN <<s>>
  ELSE IF Head(sorted).offset <= s.offset
       THEN <<Head(sorted)>> \o insert_by_offset(Tail(sorted), s)
       ELSE <<s>> \o sorted

RECURSIVE sort_by_offset(_, _)
sort_by_offset(list, acc) ==
  IF list = <<>> THEN acc
  ELSE sort_by_offset(Tail(list), insert_by_offset(acc, Head(list)))

\* the overlap filter: keep s iff s.offset >= last_end
RECURSIVE filter_overlaps(_, _, _)
filter_overlaps(list, last_end, filtered) ==
  IF list = <<>> THEN filtered
  ELSE LET s == Head(list)
       IN IF s.offset < last_end
          THEN filter_overlaps(Tail(list), last_end, filtered)
          ELSE filter_overlaps(Tail(list), s.offset + s.length, Append(filtered, s))

convert_matches_to_suggestions(text, matches, request_id) ==
  filter_overlaps(sort_by_offset(map_matches(text, matches, <<>>, request_id), <<>>),
                  0, <<>>)

\* what the model may answer: lists of LlmMatch
\* the replacements tried: none (a comment), the empty one, a letter
Replacements == {None, Some(<<>>), Some(<<"a">>)}
LlmMatches == [original : Strs(1), replacement : Replacements]
LlmOutputs == UNION {[1..k -> LlmMatches] : k \in 0..MaxMatches}

(* ------------------------- request ids --------------------------------- *)
\* fault: the counter is read but not advanced
fetch_add_stuck(counter, n) == counter

\* AtomicU64::fetch_add: the new value of REQUEST_COUNTER (the old one is returned)
fetch_add(counter, n) == counter + n

(* --------------------------- history ----------------------------------- *)
HistoryEntry(role, text, matches) ==
  [role |-> role, content |-> [text |-> text, matches |-> matches]]

\* fault: a pair is dropped only once the history is over its capacity
RECURSIVE evict_pairs_late(_, _)
evict_pairs_late(entries, max_pairs) ==
  IF Len(entries) > max_pairs * 2
  THEN evict_pairs_late(SubSeq(entries, 3, Len(entries)), max_pairs)
  ELSE entries

\* the while loop of push_pair: drop the oldest pair while at capacity
RECURSIVE evict_pairs(_, _)
evict_pairs(entries, max_pairs) ==
  IF Len(entries) >= max_pairs * 2
  THEN evict_pairs(SubSeq(entries, 3, Len(entries)), max_pairs)
  ELSE entries

\* MessageHistory::push_pair
push_pair(entries, max_pairs, user_content, assistant_content) ==
  evict_pairs(entries, max_pairs) \o <<user_content, assistant_content>>

\* the JSON sent back as history context: original and replacement of each match
assistant_matches(suggestions) ==
  [i \in 1..Len(suggestions) |->
     [original |-> suggestions[i].original, replacement |-> suggestions[i].replacement]]

(* ------------------------ status strings ------------------------------- *)
StatusReady == "Ready"
StatusChecking == "Checking..."
StatusRechecking == "Rechecking..."
StatusAllGood == "All good!"
StatusSendFailed == "Internal error: failed to send request"
StatusThreadDied == "Internal error: API thread died"
StatusInvalidRange == "Invalid suggestion range"
StatusTextChanged == "Text changed; re-checking..."
ErrorMessages == {"Network error"}

\* "All good!" or "{n} suggestion(s)"
suggestions_status(suggestions) ==
  IF suggestions = <<>> THEN StatusAllGood
  ELSE ToString(Len(suggestions)) \o " suggestion(s)"

(* ------------------------- the controller ------------------------------ *)
\* A controller state st is a record of the fields of State that the session
\* logic reads or writes, plus REQUEST_COUNTER, the queue behind api_sender
\* and the history variable accepted (the ids of the accepted responses).

GrammarRequest(st, text, request_id) ==
  [job |-> "Grammar", text |-> text, history |-> st.message_history,
   request_id |-> request_id]

\* fault: the counter is read, not advanced
next_request_id_load(counter) == [request_id |-> counter, counter |-> counter]

\* next_request_id: the id handed out and the counter it leaves behind
next_request_id(counter) == [request_id |-> counter, counter |-> fetch_add(counter, 1)]

\* the settings dialog
TestStatusTesting == "Testing..."
TestStatusOk == "Connection OK"
TestStatusSendFailed == "Internal error: failed to send test"
NoSettings ==
  [is_testing |-> FALSE, current_test_request_id |-> None, test_status |-> "",
   temp_api_key |-> <<>>]

TestRequest(set, request_id) ==
  [job |-> "TestConnection", api_key |-> set.temp_api_key, request_id |-> request_id]
ModelsRequest(set, request_id) ==
  [job |-> "FetchModels", api_key |-> set.temp_api_key, request_id |-> request_id]

\* update, Message::StartTestConnection, on the counter, the channel and the dialog
update_StartTestConnection(counter, sender, set, alive) ==
  IF set.is_testing
  THEN [REQUEST_COUNTER |-> counter, api_sender |-> sender, settings |-> set]
  ELSE LET minted == next_request_id(counter)
       IN IF alive
          THEN [REQUEST_COUNTER |-> minted.counter,
                api_sender |-> Append(sender, TestRequest(set, minted.request_id)),
                settings |-> [set EXCEPT !.is_testing = TRUE,
                                         !.current_test_request_id =
                                            Some(minted.request_id),
                                         !.test_status = TestStatusTesting]]
          ELSE [REQUEST_COUNTER |-> minted.counter,
                api_sender |-> sender,
                settings |-> [set EXCEPT !.is_testing = FALSE,
                                         !.current_test_request_id = None,
                                         !.test_status = TestStatusSendFailed]]

\* fetch_models_if_needed, on the counter, the channel and the dialog
fetch_models_if_needed(counter, sender, set, alive) ==
  IF set.temp_api_key = <<>>
  THEN [REQUEST_COUNTER |-> counter, api_sender |-> sender, settings |-> set]
  ELSE LET minted == next_request_id(counter)
       IN [REQUEST_COUNTER |-> minted.counter,
           api_sender |-> IF alive
                          THEN Append(sender, ModelsRequest(set, minted.request_id))
                          ELSE sender,
           settings |-> set]

\* update, Message::OpenSettings: config_key is the saved key of the provider
update_OpenSettings(counter, sender, set, config_key, alive) ==
  fetch_models_if_needed(counter, sender,
                         [set EXCEPT !.temp_api_key = config_key, !.test_status = ""],
                         alive)

\* update, Message::TempOpenAiKeyChanged and its two siblings
update_TempKeyChanged(counter, sender, set, v, alive) ==
  fetch_models_if_needed(counter, sender, [set EXCEPT !.temp_api_key = v], alive)

\* fault: the idempotence guard never matches
never_unchanged(st, text) == FALSE

\* the idempotence guard of check_text
unchanged_since_check(st, text) == text = st.last_checked_text

\* fault: a blank document leaves the flight as it is
blank_text_keeps_flight(st, text) ==
  [st EXCEPT !.suggestions = <<>>,
             !.hovered_suggestion = None,
             !.status = StatusReady,
             !.last_checked_text = text]

\* fault: a blank document ends the flight but keeps its request id current
blank_text_keeps_id(st, text) ==
  [st EXCEPT !.suggestions = <<>>,
             !.hovered_suggestion = None,
             !.status = StatusReady,
             !.last_checked_text = text,
             !.is_checking = FALSE]

\* the branch of check_text for a document that is empty after trim
blank_text(st, text) ==
  [st EXCEPT !.suggestions = <<>>,
             !.hovered_suggestion = None,
             !.status = StatusReady,
             !.last_checked_text = text,
             !.is_checking = FALSE,
             !.current_check_request_id = None]

\* fault: the suggestions of the last check stay while the next one runs
start_check_keeps_suggestions(st, text, request_id) ==
  [st EXCEPT !.REQUEST_COUNTER = fetch_add(@, 1),
             !.is_checking = TRUE,
             !.current_check_request_id = Some(request_id),
             !.status = StatusChecking,
             !.last_checked_text = text,
             !.pending_check_text = Some(text)]

\* the fields check_text writes before it sends the request
start_check(st, text, request_id) ==
  [st EXCEPT !.REQUEST_COUNTER = fetch_add(@, 1),
             !.is_checking = TRUE,
             !.current_check_request_id = Some(request_id),
             !.status = StatusChecking,
             !.suggestions = <<>>,
             !.hovered_suggestion = None,
             !.last_checked_text = text,
             !.pending_check_text = Some(text)]

\* check_text; alive: the worker still holds the receiving end of the channel
check_text(st, alive) ==
  LET text == st.editor
  IN IF trim_is_empty(text) THEN blank_text(st, text)
     ELSE IF unchanged_since_check(st, text) THEN st
     ELSE IF st.is_checking THEN [st EXCEPT !.pending_recheck = TRUE]
     ELSE LET request_id == st.REQUEST_COUNTER
              minted == start_check(st, text, request_id)
          IN IF alive
             THEN [minted EXCEPT
                     !.api_sender = Append(@, GrammarRequest(st, text, request_id))]
             ELSE [minted EXCEPT !.status = StatusSendFailed,
                                 !.is_checking = FALSE,
                                 !.current_check_request_id = None]

\* fault: the debounce interval is not waited for
debounce_always_elapsed(edit_time, delay, now) == TRUE

\* edit_time.elapsed() >= Duration::from_millis(delay)
debounce_elapsed(edit_time, delay, now) == now - edit_time >= delay

\* tick_debounce
\* fault: the "Never" setting is not looked at
tick_debounce_no_never(st, now, alive) ==
  IF st.last_edit_time = None THEN st
  ELSE IF debounce_elapsed(Unwrap(st.last_edit_time), st.debounce_ms, now)
       THEN check_text([st EXCEPT !.last_edit_time = None], alive)
       ELSE st

\* tick_debounce
tick_debounce(st, now, alive) ==
  IF st.last_edit_time = None THEN st
  ELSE LET delay == st.debounce_ms
       IN IF delay > NeverThreshold THEN st
          ELSE IF debounce_elapsed(Unwrap(st.last_edit_time), delay, now)
               THEN check_text([st EXCEPT !.last_edit_time = None], alive)
               ELSE st

\* fault: no response is taken for stale
never_stale(st, request_id) == FALSE

\* the staleness test of process_api_responses
is_stale(st, request_id) == st.current_check_request_id # Some(request_id)

\* fault: the timer is rearmed as just started
rearm_now(now, delay) == now

\* Instant::now() - Duration::from_millis(delay): the timer rearmed as expired
rearm_time(now, delay) == now - delay

\* fault: the flag is dropped and the timer is left alone
rearm_debounce_never(st, now) == [st EXCEPT !.pending_recheck = FALSE]

\* the pending_recheck block that ends both grammar arms

rearm_debounce(st, now) ==
  IF st.pending_recheck
  THEN IF st.debounce_ms <= NeverThreshold
       THEN [st EXCEPT !.last_edit_time = Some(rearm_time(now, st.debounce_ms))]
       ELSE [st EXCEPT !.pending_recheck = FALSE]
  ELSE st

\* the GrammarSuccess arm, once the response is known to be current
accept_success(st, response, now) ==
  LET s1 == [st EXCEPT !.is_checking = FALSE,
                       !.current_check_request_id = None,
                       !.accepted = Append(@, response.request_id)]
      s2 == IF s1.pending_check_text # None
            THEN [s1 EXCEPT
                    !.message_history =
                       push_pair(@, HistoryMaxPairs,
                                 HistoryEntry("user", Unwrap(s1.pending_check_text), <<>>),
                                 HistoryEntry("assistant", <<>>,
                                              assistant_matches(response.suggestions))),
                    !.pending_check_text = None]
            ELSE s1
      s3 == [s2 EXCEPT !.suggestions = response.suggestions,
                       !.status = suggestions_status(response.suggestions)]
  IN rearm_debounce(s3, now)

\* fault: an error leaves the controller in flight
accept_error_keeps_checking(st, response, now) ==
  rearm_debounce([st EXCEPT !.accepted = Append(@, response.request_id),
                            !.status = response.message],
                 now)

\* fault: an error forgets which text was checked and restarts the debounce
accept_error_forgets(st, response, now) ==
  [st EXCEPT !.is_checking = FALSE,
             !.current_check_request_id = None,
             !.accepted = Append(@, response.request_id),
             !.status = response.message,
             !.last_checked_text = <<>>,
             !.last_edit_time = Some(now)]

\* the GrammarError arm, once the response is known to be current
accept_error(st, response, now) ==
  rearm_debounce([st EXCEPT !.is_checking = FALSE,
                            !.current_check_request_id = None,
                            !.accepted = Append(@, response.request_id),
                            !.status = response.message],
                 now)

\* fault: a stale response still ends the in-flight state
handle_response_stale_ends(st, response, now) ==
  IF is_stale(st, response.request_id)
  THEN [st EXCEPT !.is_checking = FALSE, !.current_check_request_id = None]
  ELSE IF response.kind = "GrammarSuccess" THEN accept_success(st, response, now)
  ELSE accept_error(st, response, now)

\* one iteration of the loop of process_api_responses on a received response
handle_response(st, response, now) ==
  IF is_stale(st, response.request_id) THEN st
  ELSE IF response.kind = "GrammarSuccess" THEN accept_success(st, response, now)
  ELSE accept_error(st, response, now)

\* the response arms that belong to the grammar check
GrammarKinds == {"GrammarSuccess", "GrammarError"}

RECURSIVE drain_responses(_, _, _)
drain_responses(st, responses, now) ==
  IF responses = <<>> THEN st
  ELSE IF Head(responses).kind \in GrammarKinds
  THEN drain_responses(handle_response(st, Head(responses), now), Tail(responses), now)
  ELSE drain_responses(st, Tail(responses), now)

\* the TestSuccess and TestError arms of process_api_responses
handle_test_response(set, response) ==
  IF set.current_test_request_id # Some(response.request_id) THEN set
  ELSE [set EXCEPT !.is_testing = FALSE,
                   !.current_test_request_id = None,
                   !.test_status = IF response.kind = "TestSuccess"
                                   THEN TestStatusOk ELSE response.message]

\* what the loop of process_api_responses does to the settings dialog; the
\* ModelsSuccess and ModelsError arms only fill the model lists
RECURSIVE process_test_responses(_, _)
process_test_responses(set, responses) ==
  IF responses = <<>> THEN set
  ELSE IF Head(responses).kind \in {"TestSuccess", "TestError"}
  THEN process_test_responses(handle_test_response(set, Head(responses)), Tail(responses))
  ELSE process_test_responses(set, Tail(responses))

\* process_api_responses: every queued response, then Empty or Disconnected
process_api_responses(st, responses, now, alive) ==
  LET drained == drain_responses(st, responses, now)
  IN IF alive THEN drained ELSE [drained EXCEPT !.status = StatusThreadDied]

\* update, Message::Tick
update_Tick(st, responses, now, alive) ==
  tick_debounce(process_api_responses(st, responses, now, alive), now, alive)

\* fault: the hovered suggestion survives an edit
update_EditorAction_keeps_hover(st, new_text, now) ==
  IF st.editor # new_text
  THEN [st EXCEPT !.editor = new_text,
                  !.suggestions = <<>>,
                  !.last_edit_time = Some(now),
                  !.pending_recheck = IF st.is_checking THEN TRUE ELSE @]
  ELSE st

\* update, Message::EditorAction: new_text is the text after editor.perform
update_EditorAction(st, new_text, now) ==
  IF st.editor # new_text
  THEN [st EXCEPT !.editor = new_text,
                  !.suggestions = <<>>,
                  !.hovered_suggestion = None,
                  !.last_edit_time = Some(now),
                  !.pending_recheck = IF st.is_checking THEN TRUE ELSE @]
  ELSE st

\* fault: the list is cut at the first suggestion with the id
RECURSIVE retain_not_cut(_, _)
retain_not_cut(suggestions, id) ==
  IF suggestions = <<>> THEN <<>>
  ELSE IF Head(suggestions).id = id THEN <<>>
  ELSE <<Head(suggestions)>> \o retain_not_cut(Tail(suggestions), id)

\* Vec::retain(|s| s.id != id)
RECURSIVE retain_not(_, _)
retain_not(suggestions, id) ==
  IF suggestions = <<>> THEN <<>>
  ELSE IF Head(suggestions).id = id THEN retain_not(Tail(suggestions), id)
  ELSE <<Head(suggestions)>> \o retain_not(Tail(suggestions), id)

\* update, Message::DismissSuggestion
update_DismissSuggestion(st, id) ==
  LET kept == retain_not(st.suggestions, id)
  IN [st EXCEPT !.suggestions = kept,
                !.hovered_suggestion = IF @ = Some(id) THEN None ELSE @,
                !.status = IF st.is_checking THEN @ ELSE suggestions_status(kept)]

\* update, Message::HoverSuggestion / ClearHoverSuggestion
update_HoverSuggestion(st, id) == [st EXCEPT !.hovered_suggestion = Some(id)]
update_ClearHoverSuggestion(st) == [st EXCEPT !.hovered_suggestion = None]

\* update, Message::ForceCheck
update_ForceCheck(st, alive) ==
  IF st.is_checking
  THEN [st EXCEPT !.pending_recheck = TRUE, !.status = StatusRechecking]
  ELSE check_text([st EXCEPT !.last_checked_text = <<>>], alive)

\* fault: every remaining suggestion is shifted
shift_after_all(list, offset, delta) ==
  [i \in 1..Len(list) |-> [list[i] EXCEPT !.offset = @ + delta]]

\* the offset shift of apply_suggestion
shift_after(suggestions, offset, delta) ==
  [i \in 1..Len(suggestions) |->
     IF suggestions[i].offset > offset
     THEN [suggestions[i] EXCEPT !.offset = @ + delta]
     ELSE suggestions[i]]

\* fault: a comment-only suggestion is handled like a conflict
apply_suggestion_comment_is_conflict(st, suggestion_id, now) ==
  LET found == {i \in 1..Len(st.suggestions) : st.suggestions[i].id = suggestion_id}
  IN IF found = {} THEN st
     ELSE LET suggestion == st.suggestions[Min(found)]
              text == st.editor
              start == suggestion.offset
              end == suggestion.offset + suggestion.length
          IN IF start > Len(text) \/ end > Len(text)
             THEN [st EXCEPT !.status = StatusInvalidRange,
                             !.last_edit_time = Some(now)]
             ELSE IF Slice(text, start, end) # suggestion.original
             THEN [st EXCEPT !.status = StatusTextChanged,
                             !.last_edit_time = Some(now)]
             ELSE IF suggestion.replacement = None
             THEN [st EXCEPT !.status = StatusTextChanged,
                             !.last_edit_time = Some(now)]
             ELSE LET replacement == Unwrap(suggestion.replacement)
                      new_text == Slice(text, 0, start) \o replacement
                                    \o Slice(text, end, Len(text))
                      delta == Len(replacement) - suggestion.length
                      rest == shift_after(retain_not(st.suggestions, suggestion_id),
                                          suggestion.offset, delta)
                  IN [st EXCEPT !.suggestions = rest,
                                !.editor = new_text,
                                !.last_checked_text = new_text,
                                !.status = suggestions_status(rest)]

\* fault: the checked text is not moved to the new document
apply_suggestion_keeps_checked(st, suggestion_id, now) ==
  LET found == {i \in 1..Len(st.suggestions) : st.suggestions[i].id = suggestion_id}
  IN IF found = {} THEN st
     ELSE LET suggestion == st.suggestions[Min(found)]
              text == st.editor
              start == suggestion.offset
              end == suggestion.offset + suggestion.length
          IN IF start > Len(text) \/ end > Len(text)
             THEN [st EXCEPT !.status = StatusInvalidRange,
                             !.last_edit_time = Some(now)]
             ELSE IF Slice(text, start, end) # suggestion.original
             THEN [st EXCEPT !.status = StatusTextChanged,
                             !.last_edit_time = Some(now)]
             ELSE IF suggestion.replacement = None THEN st
             ELSE LET replacement == Unwrap(suggestion.replacement)
                      new_text == Slice(text, 0, start) \o replacement
                                    \o Slice(text, end, Len(text))
                      delta == Len(replacement) - suggestion.length
                      rest == shift_after(retain_not(st.suggestions, suggestion_id),
                                          suggestion.offset, delta)
                  IN [st EXCEPT !.suggestions = rest,
                                !.editor = new_text,
                                !.status = suggestions_status(rest)]

\* apply_suggestion
apply_suggestion(st, suggestion_id, now) ==
  LET found == {i \in 1..Len(st.suggestions) : st.suggestions[i].id = suggestion_id}
  IN IF found = {} THEN st
     ELSE LET suggestion == st.suggestions[Min(found)]
              text == st.editor
              start == suggestion.offset
              end == suggestion.offset + suggestion.length
          IN IF start > Len(text) \/ end > Len(text)
             THEN [st EXCEPT !.status = StatusInvalidRange,
                             !.last_edit_time = Some(now)]
             ELSE IF Slice(text, start, end) # suggestion.original
             THEN [st EXCEPT !.status = StatusTextChanged,
                             !.last_edit_time = Some(now)]
             ELSE IF suggestion.replacement = None THEN st
             ELSE LET replacement == Unwrap(suggestion.replacement)
                      new_text == Slice(text, 0, start) \o replacement
                                    \o Slice(text, end, Len(text))
                      delta == Len(replacement) - suggestion.length
                      rest == shift_after(retain_not(st.suggestions, suggestion_id),
                                          suggestion.offset, delta)
                  IN [st EXCEPT !.suggestions = rest,
                                !.editor = new_text,
                                !.last_checked_text = new_text,
                                !.status = suggestions_status(rest)]

\* update, Message::ApplySuggestion
update_ApplySuggestion(st, id, now) == apply_suggestion(st, id, now)

(* ----------------------------- the worker ------------------------------ *)
GrammarSuccess(suggestions, request_id) ==
  [kind |-> "GrammarSuccess", suggestions |-> suggestions, message |-> "",
   request_id |-> request_id]
GrammarError(message, request_id) ==
  [kind |-> "GrammarError", suggestions |-> <<>>, message |-> message,
   request_id |-> request_id]

\* check_grammar and the send of spawn_api_worker: the responses one request
\* can get.  The provider answers with any match list, or the call fails.
check_grammar(request) ==
  {GrammarError(m, request.request_id) : m \in ErrorMessages}
  \cup (IF trim_is_empty(request.text)
        THEN {GrammarSuccess(<<>>, request.request_id)}
        ELSE {GrammarSuccess(convert_matches_to_suggestions(request.text, out,
                                                            request.request_id),
                             request.request_id) : out \in LlmOutputs})

TestSuccess(request_id) ==
  [kind |-> "TestSuccess", message |-> "", request_id |-> request_id]
TestError(message, request_id) ==
  [kind |-> "TestError", message |-> message, request_id |-> request_id]
ModelsSuccess == [kind |-> "ModelsSuccess", message |-> ""]
ModelsError(message) == [kind |-> "ModelsError", message |-> message]

\* test_connection and fetch_models with the send that follows them
test_connection(request) ==
  {TestSuccess(request.request_id)}
  \cup {TestError(m, request.request_id) : m \in ErrorMessages}
fetch_models(request) == {ModelsSuccess} \cup {ModelsError(m) : m \in ErrorMessages}

\* the match on req.job of spawn_api_worker: the responses one request can get
worker_responses(request) ==
  IF request.job = "Grammar" THEN check_grammar(request)
  ELSE IF request.job = "TestConnection" THEN test_connection(request)
  ELSE fetch_models(request)

(* ------------------------------ state ---------------------------------- *)
VARIABLES
  editor,                    \* state.editor.text()
  last_checked_text,
  suggestions,
  hovered_suggestion,
  status,
  debounce_ms,               \* state.config.debounce_ms
  last_edit_time,
  is_checking,
  current_check_request_id,
  pending_recheck,
  pending_check_text,
  message_history,
  REQUEST_COUNTER,
  api_sender,                \* requests sent and not yet taken up and answered
  api_receiver,              \* responses sent by the worker and not yet received
  worker_alive,              \* the worker thread has not panicked
  now,                       \* Instant::now()
  accepted,                  \* history: the request ids of the accepted responses
  last_text_edit,            \* history: the time of the last text-changing edit
  ev,                        \* history: what the last step did
  http,                      \* the last exchange of a stateless part: request, response
  history,                   \* a MessageHistory on its own, and the pairs pushed to it
  settings                   \* the settings dialog: is_testing, current_test_request_id,
                             \* test_status and the temp api key of the temp provider

vars == <<editor, last_checked_text, suggestions, hovered_suggestion, status,
          debounce_ms, last_edit_time, is_checking, current_check_request_id,
          pending_recheck, pending_check_text, message_history, REQUEST_COUNTER,
          api_sender, api_receiver, worker_alive, now, accepted, last_text_edit, ev,
          http, history, settings>>

\* the controller state as the record the handlers work on
S ==
  [editor |-> editor, last_checked_text |-> last_checked_text,
   suggestions |-> suggestions, hovered_suggestion |-> hovered_suggestion,
   status |-> status, debounce_ms |-> debounce_ms,
   last_edit_time |-> last_edit_time, is_checking |-> is_checking,
   current_check_request_id |-> current_check_request_id,
   pending_recheck |-> pending_recheck, pending_check_text |-> pending_check_text,
   message_history |-> message_history, REQUEST_COUNTER |-> REQUEST_COUNTER,
   api_sender |-> api_sender, accepted |-> accepted]

Commit(r) ==
  /\ editor' = r.editor
  /\ last_checked_text' = r.last_checked_text
  /\ suggestions' = r.suggestions
  /\ hovered_suggestion' = r.hovered_suggestion
  /\ status' = r.status
  /\ debounce_ms' = r.debounce_ms
  /\ last_edit_time' = r.last_edit_time
  /\ is_checking' = r.is_checking
  /\ current_check_request_id' = r.current_check_request_id
  /\ pending_recheck' = r.pending_recheck
  /\ pending_check_text' = r.pending_check_text
  /\ message_history' = r.message_history
  /\ REQUEST_COUNTER' = r.REQUEST_COUNTER
  /\ api_sender' = r.api_sender
  /\ accepted' = r.accepted

\* the debounce settings tried: immediate, one time unit, "Never"
DebounceChoices == {0, 1, NeverThreshold + 1}

\* ids a suggestion message can carry: a listed suggestion, or one no longer listed
GoneId == <<MaxReq, 0>>
MessageIds == {suggestions[i].id : i \in 1..Len(suggestions)} \cup {GoneId}

Event(msg, changed, issued, acc, discarded, expired, rearmed) ==
  [msg |-> msg, changed |-> changed, issued |-> issued, accepted |-> acc,
   discarded |-> discarded, expired |-> expired, rearmed |-> rearmed]

\* a step the history keeps no detail of
Quiet == Event("other", FALSE, FALSE, FALSE, FALSE, FALSE, FALSE)

\* a request went out on the channel between st and r
Issued(st, r) == Len(r.api_sender) > Len(st.api_sender)

\* state::new
\* the backend has served no request
NoSuggestion ==
  [id |-> <<"none", 0>>, offset |-> 0, length |-> 0, original |-> <<>>,
   replacement |-> <<>>]
\* MessageHistory::default(), nothing pushed
NoHistory == [entries |-> <<>>, max_pairs |-> HistoryMaxPairs, pushed |-> <<>>]
NoExchange ==
  [endpoint |-> "none", text |-> <<>>, matches |-> <<>>, suggestion |-> NoSuggestion,
   code |-> "none", body_text |-> <<>>, body_matches |-> <<>>]

Init ==
  /\ editor \in Docs
  /\ last_checked_text = <<>>
  /\ suggestions = <<>>
  /\ hovered_suggestion = None
  /\ status = StatusReady
  /\ debounce_ms \in DebounceChoices
  /\ last_edit_time = None
  /\ is_checking = FALSE
  /\ current_check_request_id = None
  /\ pending_recheck = FALSE
  /\ pending_check_text = None
  /\ message_history = <<>>
  /\ REQUEST_COUNTER = 0
  /\ api_sender = <<>>
  /\ api_receiver = <<>>
  /\ worker_alive \in BOOLEAN
  /\ now = 0
  /\ accepted = <<>>
  /\ last_text_edit = None
  /\ ev = Quiet
  /\ http = NoExchange
  /\ history = NoHistory
  /\ settings = NoSettings

(* ----------------------------- actions --------------------------------- *)
Tick ==
  LET mid == process_api_responses(S, api_receiver, now, worker_alive)
      fin == update_Tick(S, api_receiver, now, worker_alive)
      acc == Len(mid.accepted) > Len(accepted)
      expired == /\ mid.last_edit_time # None
                 /\ mid.debounce_ms <= NeverThreshold
                 /\ debounce_elapsed(Unwrap(mid.last_edit_time), mid.debounce_ms, now)
  IN /\ fin.REQUEST_COUNTER <= MaxReq
     /\ Commit(fin)
     /\ api_receiver' = <<>>
     /\ ev' = Event("Tick", FALSE, Issued(S, fin), acc,
                    Len(api_receiver) > Len(mid.accepted) - Len(accepted), expired,
                    acc /\ mid.pending_recheck /\ mid.debounce_ms <= NeverThreshold)
     /\ settings' = process_test_responses(settings, api_receiver)
     /\ UNCHANGED <<http, history, worker_alive, now, last_text_edit>>

EditorAction ==
  \E new_text \in Docs :
    /\ Commit(update_EditorAction(S, new_text, now))
    /\ last_text_edit' = IF new_text # editor THEN Some(now) ELSE last_text_edit
    /\ ev' = Event("EditorAction", new_text # editor, FALSE, FALSE, FALSE, FALSE, FALSE)
    /\ UNCHANGED <<http, history, settings, api_receiver, worker_alive, now>>

ApplySuggestion ==
  \E id \in MessageIds :
    LET r == update_ApplySuggestion(S, id, now)
    IN /\ Commit(r)
       /\ ev' = Event("ApplySuggestion", r.editor # editor, FALSE, FALSE, FALSE, FALSE,
                      FALSE)
       /\ UNCHANGED <<http, history, settings, api_receiver, worker_alive, now, last_text_edit>>

DismissSuggestion ==
  \E id \in MessageIds :
    /\ Commit(update_DismissSuggestion(S, id))
    /\ ev' = Quiet
    /\ UNCHANGED <<http, history, settings, api_receiver, worker_alive, now, last_text_edit>>

HoverSuggestion ==
  \E id \in MessageIds \ {GoneId} :
    /\ Commit(update_HoverSuggestion(S, id))
    /\ ev' = Quiet
    /\ UNCHANGED <<http, history, settings, api_receiver, worker_alive, now, last_text_edit>>

ClearHoverSuggestion ==
  /\ Commit(update_ClearHoverSuggestion(S))
  /\ ev' = Quiet
  /\ UNCHANGED <<http, history, settings, api_receiver, worker_alive, now, last_text_edit>>

ForceCheck ==
  LET r == update_ForceCheck(S, worker_alive)
  IN /\ r.REQUEST_COUNTER <= MaxReq
     /\ Commit(r)
     /\ ev' = Event("ForceCheck", FALSE, Issued(S, r), FALSE, FALSE, FALSE, FALSE)
     /\ UNCHANGED <<http, history, settings, api_receiver, worker_alive, now, last_text_edit>>

\* one iteration of the worker loop: recv, check_grammar, send
WorkerStep ==
  /\ worker_alive
  /\ api_sender # <<>>
  /\ \E response \in worker_responses(Head(api_sender)) :
       api_receiver' = Append(api_receiver, response)
  /\ api_sender' = Tail(api_sender)
  /\ ev' = Quiet
  /\ UNCHANGED <<http, history, settings, editor, last_checked_text, suggestions, hovered_suggestion, status,
                 debounce_ms, last_edit_time, is_checking, current_check_request_id,
                 pending_recheck, pending_check_text, message_history,
                 REQUEST_COUNTER, worker_alive, now, accepted, last_text_edit>>

\* the worker panics inside check_grammar (the byte slice of the debug print is
\* not on a character boundary): the request gets no response, both channel
\* ends of the worker are dropped
WorkerPanic ==
  /\ worker_alive
  /\ api_sender # <<>>
  /\ Head(api_sender).job = "Grammar"
  /\ worker_alive' = FALSE
  /\ api_sender' = <<>>
  /\ ev' = Quiet
  /\ UNCHANGED <<http, history, settings, editor, last_checked_text, suggestions, hovered_suggestion, status,
                 debounce_ms, last_edit_time, is_checking, current_check_request_id,
                 pending_recheck, pending_check_text, message_history,
                 REQUEST_COUNTER, api_receiver, now, accepted, last_text_edit>>

\* time passes
Advance ==
  /\ now < MaxTime
  /\ now' = now + 1
  /\ ev' = Quiet
  /\ UNCHANGED <<http, history, settings, editor, last_checked_text, suggestions, hovered_suggestion, status,
                 debounce_ms, last_edit_time, is_checking, current_check_request_id,
                 pending_recheck, pending_check_text, message_history,
                 REQUEST_COUNTER, api_sender, api_receiver, worker_alive, accepted,
                 last_text_edit>>

Next ==
  \/ Tick
  \/ EditorAction
  \/ ApplySuggestion
  \/ DismissSuggestion
  \/ HoverSuggestion
  \/ ClearHoverSuggestion
  \/ ForceCheck
  \/ WorkerStep
  \/ WorkerPanic
  \/ Advance

Spec == Init /\ [][Next]_vars

(* ------------------- a session that keeps running --------------------- *)
\* Auto-check is enabled and the worker thread lives and does not panic.  The
\* iced runtime delivers Message::Tick from a timer subscription for as long
\* as the window is open, the worker thread blocks in recv and is scheduled
\* when a request waits, the clock advances: weak fairness of Tick,
\* WorkerStep and Advance.  The user is under no obligation.  The user edits
\* only while a request id and, with a debounce to wait for, a time unit are
\* left for the check the edit calls for, so that every run keeps within
\* MaxReq and MaxTime without a Tick ever being withheld.  Hovering is left out.
LiveEdit ==
  /\ REQUEST_COUNTER < MaxReq
  /\ debounce_ms = 0 \/ now < MaxTime
  /\ EditorAction

\* a fresh session with an empty draft and a debounce that has to be waited for
LiveInit == Init /\ worker_alive /\ debounce_ms = 1 /\ editor = <<>>
LiveNext ==
  \/ Tick
  \/ LiveEdit
  \/ ApplySuggestion
  \/ DismissSuggestion
  \/ ForceCheck
  \/ WorkerStep
  \/ Advance
LiveSpec ==
  /\ LiveInit
  /\ [][LiveNext]_vars
  /\ WF_vars(Tick)
  /\ WF_vars(WorkerStep)
  /\ WF_vars(Advance)

(* ----------------------- every minting site ---------------------------- *)
\* The settings dialog shares REQUEST_COUNTER and the channel with the grammar
\* check: a connection test and a model fetch take their ids from the same
\* counter.  The debounce is immediate and time stands still.
ApiKeys == {<<>>, <<"a">>}

\* the fields of the controller the settings dialog writes
CommitDialog(r) ==
  /\ REQUEST_COUNTER' = r.REQUEST_COUNTER
  /\ api_sender' = r.api_sender
  /\ settings' = r.settings
  /\ ev' = Quiet
  /\ UNCHANGED <<http, history, editor, last_checked_text, suggestions,
                 hovered_suggestion, status, debounce_ms, last_edit_time, is_checking,
                 current_check_request_id, pending_recheck, pending_check_text,
                 message_history, api_receiver, worker_alive, now, accepted,
                 last_text_edit>>

StartTestConnection ==
  /\ REQUEST_COUNTER < MaxReq
  /\ CommitDialog(update_StartTestConnection(REQUEST_COUNTER, api_sender, settings,
                                             worker_alive))

OpenSettings ==
  /\ REQUEST_COUNTER < MaxReq
  /\ \E config_key \in ApiKeys :
       CommitDialog(update_OpenSettings(REQUEST_COUNTER, api_sender, settings,
                                        config_key, worker_alive))

TempKeyChanged ==
  /\ REQUEST_COUNTER < MaxReq
  /\ \E v \in ApiKeys :
       CommitDialog(update_TempKeyChanged(REQUEST_COUNTER, api_sender, settings, v,
                                          worker_alive))

MintInit == Init /\ debounce_ms = 0
MintNext ==
  \/ Tick
  \/ EditorAction
  \/ ForceCheck
  \/ StartTestConnection
  \/ OpenSettings
  \/ TempKeyChanged
  \/ WorkerStep
  \/ WorkerPanic
MintSpec == MintInit /\ [][MintNext]_vars

(* ------------------- suggestions shown, then applied ------------------- *)
\* The controller right after the suggestions of a check were shown, for
\* documents long enough to hold several spans, then ApplySuggestion and
\* DismissSuggestion messages only.
MaxApplyLen == 3
MaxApplyMatches == 2

ApplyChars == {"a", "A"}
ApplyStrs(n) == UNION {[1..k -> ApplyChars] : k \in 1..n}
ApplyReplacements == {None, Some(<<"a">>), Some(<<"a", "a">>)}
ApplyLlmMatches == [original : ApplyStrs(2), replacement : ApplyReplacements]
ApplyLlmOutputs == UNION {[1..k -> ApplyLlmMatches] : k \in 0..MaxApplyMatches}

\* the State that new returns, the draft holding text
State_new(text, debounce) ==
  [editor |-> text, last_checked_text |-> <<>>, suggestions |-> <<>>,
   hovered_suggestion |-> None, status |-> StatusReady, debounce_ms |-> debounce,
   last_edit_time |-> None, is_checking |-> FALSE,
   current_check_request_id |-> None, pending_recheck |-> FALSE,
   pending_check_text |-> None, message_history |-> <<>>, REQUEST_COUNTER |-> 0,
   api_sender |-> <<>>, accepted |-> <<>>]

\* the controller state is r
Holds(r) ==
  /\ editor = r.editor
  /\ last_checked_text = r.last_checked_text
  /\ suggestions = r.suggestions
  /\ hovered_suggestion = r.hovered_suggestion
  /\ status = r.status
  /\ debounce_ms = r.debounce_ms
  /\ last_edit_time = r.last_edit_time
  /\ is_checking = r.is_checking
  /\ current_check_request_id = r.current_check_request_id
  /\ pending_recheck = r.pending_recheck
  /\ pending_check_text = r.pending_check_text
  /\ message_history = r.message_history
  /\ REQUEST_COUNTER = r.REQUEST_COUNTER
  /\ api_sender = r.api_sender
  /\ accepted = r.accepted

\* new, ForceCheck, the worker's answer to request 0, the Tick that shows it
ApplyInit ==
  /\ \E text \in ApplyStrs(MaxApplyLen) : \E out \in ApplyLlmOutputs :
       LET sent == update_ForceCheck(State_new(text, 0), TRUE)
           response == GrammarSuccess(convert_matches_to_suggestions(text, out, 0), 0)
           shown == update_Tick([sent EXCEPT !.api_sender = <<>>], <<response>>, 0, TRUE)
       IN Holds(shown)
  /\ api_receiver = <<>>
  /\ worker_alive = TRUE
  /\ now = 0
  /\ last_text_edit = None
  /\ ev = Quiet
  /\ http = NoExchange
  /\ history = NoHistory
  /\ settings = NoSettings

ApplyNext == ApplySuggestion \/ DismissSuggestion
ApplySpec == ApplyInit /\ [][ApplyNext]_vars

(* ----------------------------- backend --------------------------------- *)
\* The backend is a stateless HTTP server.  Its texts are UTF-8: a sequence of
\* bytes in which "e1" "e2" are the two bytes of one scalar value, "t1" "t2"
\* "t3" the three bytes of another and "f1" "f2" "f3" "f4" the four of a third.
MaxBackendChars == 2

BackendChars ==
  {<<"a">>, <<"e1", "e2">>, <<"t1", "t2", "t3">>, <<"f1", "f2", "f3", "f4">>}
\* the bytes that continue a scalar value
ContinuationBytes == {"e2", "t2", "t3", "f2", "f3", "f4"}
RECURSIVE Utf8(_)
Utf8(n) ==
  IF n = 0 THEN {<<>>}
  ELSE Utf8(n - 1) \cup {t \o c : t \in Utf8(n - 1), c \in BackendChars}
BackendTexts == Utf8(MaxBackendChars)

\* str::is_char_boundary
is_char_boundary(text, index) ==
  \/ index = 0
  \/ index = Len(text)
  \/ index < Len(text) /\ text[index + 1] \notin ContinuationBytes

\* text.char_indices().map(|(i, _)| i).collect(), then push(text.len())
RECURSIVE char_indices(_, _)
char_indices(text, i) ==
  IF i >= Len(text) THEN <<>>
  ELSE IF is_char_boundary(text, i) THEN <<i>> \o char_indices(text, i + 1)
  ELSE char_indices(text, i + 1)
boundaries(text) == Append(char_indices(text, 0), Len(text))

\* fault: the character indices are used as byte offsets
backend_map_match_char_as_byte(text, m, out) ==
  IF m.start > m.end \/ m.end > Len(text) THEN out
  ELSE LET original == Slice(text, m.start, m.end)
       IN IF original = m.replacement THEN out
          ELSE Append(out, [id |-> <<"llm", Len(out) + 1>>, offset |-> m.start,
                            length |-> m.end - m.start, original |-> original,
                            replacement |-> m.replacement])

\* fault: a pair out of range ends the batch with nothing
backend_map_match_abort(text, m, out) ==
  LET bs == boundaries(text)
      char_len == Len(bs) - 1
  IN IF m.start > m.end \/ m.end > char_len THEN <<>>
     ELSE LET start_b == bs[m.start + 1]
              end_b == bs[m.end + 1]
              original == Slice(text, start_b, end_b)
          IN IF original = m.replacement THEN out
             ELSE Append(out, [id |-> <<"llm", Len(out) + 1>>, offset |-> start_b,
                               length |-> end_b - start_b, original |-> original,
                               replacement |-> m.replacement])

\* the loop body of convert_llm_matches_to_suggestions
backend_map_match(text, m, out) ==
  LET bs == boundaries(text)
      char_len == Len(bs) - 1
  IN IF m.start > m.end \/ m.end > char_len THEN out
     ELSE LET start_b == bs[m.start + 1]
              end_b == bs[m.end + 1]
              original == Slice(text, start_b, end_b)
          IN IF start_b > end_b \/ end_b > Len(text) THEN out
             ELSE IF original = m.replacement THEN out
             ELSE Append(out, [id |-> <<"llm", Len(out) + 1>>, offset |-> start_b,
                               length |-> end_b - start_b, original |-> original,
                               replacement |-> m.replacement])

RECURSIVE backend_map_matches(_, _, _)
backend_map_matches(text, matches, out) ==
  IF matches = <<>> THEN out
  ELSE backend_map_matches(text, Tail(matches),
                           backend_map_match(text, Head(matches), out))

\* fault: a span is dropped only when it starts before the start of the last kept
RECURSIVE backend_filter_by_start(_, _, _)
backend_filter_by_start(list, last_end, filtered) ==
  IF list = <<>> THEN filtered
  ELSE LET s == Head(list)
       IN IF s.offset < last_end
          THEN backend_filter_by_start(Tail(list), last_end, filtered)
          ELSE backend_filter_by_start(Tail(list), s.offset, Append(filtered, s))

\* fault: the cursor moves to the end of every span, kept or dropped
RECURSIVE backend_filter_moves_cursor(_, _, _)
backend_filter_moves_cursor(list, last_end, filtered) ==
  IF list = <<>> THEN filtered
  ELSE LET s == Head(list)
           end == s.offset + s.length
       IN IF s.offset < last_end
          THEN backend_filter_moves_cursor(Tail(list), end, filtered)
          ELSE backend_filter_moves_cursor(Tail(list), end, Append(filtered, s))

\* the sweep that ends convert_llm_matches_to_suggestions
RECURSIVE backend_filter(_, _, _)
backend_filter(list, last_end, filtered) ==
  IF list = <<>> THEN filtered
  ELSE LET s == Head(list)
           end == s.offset + s.length
       IN IF s.offset < last_end
          THEN backend_filter(Tail(list), last_end, filtered)
          ELSE backend_filter(Tail(list), end, Append(filtered, s))

convert_llm_matches_to_suggestions(text, matches) ==
  backend_filter(sort_by_offset(backend_map_matches(text, matches, <<>>), <<>>),
                 0, <<>>)

\* what the model may answer to the backend: character index pairs
MaxBackendMatches == 3
BackendReplacements == {<<>>, <<"a">>}
BackendLlmMatches ==
  [start : 0..(MaxBackendChars + 1), end : 0..(MaxBackendChars + 1),
   replacement : BackendReplacements]
BackendLlmOutputs == UNION {[1..k -> BackendLlmMatches] : k \in 0..MaxBackendMatches}

\* the suggestions a client may send to /api/apply
ClientSuggestions ==
  [id : {<<"llm", 1>>}, offset : 0..(2 * MaxBackendChars + 1),
   length : 0..(MaxBackendChars + 1), original : Utf8(1),
   replacement : BackendReplacements]

Exchange(endpoint, text, matches, suggestion, code, body_text, body_matches) ==
  [endpoint |-> endpoint, text |-> text, matches |-> matches,
   suggestion |-> suggestion, code |-> code, body_text |-> body_text,
   body_matches |-> body_matches]

\* the handler api_check, the model having answered with matches
api_check(text, matches) ==
  Exchange("check", text, matches, NoSuggestion, "200 OK", <<>>,
           convert_llm_matches_to_suggestions(text, matches))

\* the handler api_check, the call of the model having failed
api_check_failed(text) ==
  Exchange("check", text, <<>>, NoSuggestion, "502 Bad Gateway", <<>>, <<>>)

\* the handler api_apply; slicing a str off a character boundary panics and
\* the client gets no response
api_apply(text, s) ==
  LET start == s.offset
      end == s.offset + s.length
  IN IF start > Len(text) \/ end > Len(text) \/ start > end
     THEN Exchange("apply", text, <<>>, s, "400 Bad Request", <<>>, <<>>)
     ELSE IF ~is_char_boundary(text, start) \/ ~is_char_boundary(text, end)
     THEN Exchange("apply", text, <<>>, s, "panic", <<>>, <<>>)
     ELSE IF Slice(text, start, end) # s.original
     THEN Exchange("apply", text, <<>>, s, "409 Conflict", <<>>, <<>>)
     ELSE Exchange("apply", text, <<>>, s, "200 OK",
                   Slice(text, 0, start) \o s.replacement \o Slice(text, end, Len(text)),
                   <<>>)

\* The page that calls the endpoints keeps the document and the suggestions of
\* the last check; after a successful /api/apply it drops the applied one and
\* shifts the rest by delta, as the Edit Reconciler is specified.
frontend_reconcile(list, target) ==
  shift_after(retain_not(list, target.id), target.offset,
              Len(target.replacement) - target.length)

DesktopIdle ==
  UNCHANGED <<editor, last_checked_text, suggestions, hovered_suggestion, status,
              debounce_ms, last_edit_time, is_checking, current_check_request_id,
              pending_recheck, pending_check_text, message_history,
              REQUEST_COUNTER, api_sender, api_receiver, worker_alive, now,
              accepted, last_text_edit, ev, settings>>

\* The handlers keep nothing between two requests, so a run follows one.
ApiCheck ==
  /\ http = NoExchange
  /\ \E text \in BackendTexts :
       \/ \E matches \in BackendLlmOutputs : http' = api_check(text, matches)
       \/ http' = api_check_failed(text)
  /\ DesktopIdle
  /\ UNCHANGED history

ApiApply ==
  /\ http = NoExchange
  /\ \E text \in BackendTexts : \E s \in ClientSuggestions :
       http' = api_apply(text, s)
  /\ DesktopIdle
  /\ UNCHANGED history

BackendInit == Init /\ editor = <<>> /\ debounce_ms = 0 /\ worker_alive
BackendNext == ApiCheck \/ ApiApply
BackendSpec == BackendInit /\ [][BackendNext]_vars

(* ------------------- the literal-substring mapper ---------------------- *)
\* check_grammar after the model has answered: one text, one parsed answer,
\* the suggestions convert_matches_to_suggestions makes of them.  The texts
\* hold a character whose lower case is longer than itself.
MaxMapChars == 2
MaxMapMatches == 2

MapChars == {<<"a">>, <<"A">>, <<"I1", "I2">>}
RECURSIVE MapStrs(_)
MapStrs(n) ==
  IF n = 0 THEN {<<>>}
  ELSE MapStrs(n - 1) \cup {t \o c : t \in MapStrs(n - 1), c \in MapChars}
MapTexts == MapStrs(MaxMapChars)
MapLlmMatches == [original : MapStrs(1), replacement : Replacements]
MapLlmOutputs == UNION {[1..k -> MapLlmMatches] : k \in 0..MaxMapMatches}

ConvertMatches ==
  /\ http = NoExchange
  /\ \E text \in MapTexts : \E matches \in MapLlmOutputs :
       http' = Exchange("check_grammar", text, matches, NoSuggestion, "Ok", <<>>,
                        convert_matches_to_suggestions(text, matches, 0))
  /\ DesktopIdle
  /\ UNCHANGED history

MapInit == BackendInit
MapNext == ConvertMatches
MapSpec == MapInit /\ [][MapNext]_vars

(* ------------------------ a MessageHistory ----------------------------- *)
\* A MessageHistory created with max_pairs of its own, then push_pair calls.
MaxPairs == 2
MaxPushes == 4

\* what is pushed: the text that was checked, the matches that were answered
UserContents == {<<"a">>, <<"A">>}
AssistantContents == {<<>>, <<[original |-> <<"a">>, replacement |-> None]>>}

\* MessageHistory::new(max_pairs)
MessageHistory_new(max_pairs) ==
  [entries |-> <<>>, max_pairs |-> max_pairs, pushed |-> <<>>]

PushPair ==
  /\ Len(history.pushed) < MaxPushes
  /\ \E user \in UserContents : \E assistant \in AssistantContents :
       history' = [history EXCEPT
                     !.entries = push_pair(@, history.max_pairs,
                                           HistoryEntry("user", user, <<>>),
                                           HistoryEntry("assistant", <<>>, assistant)),
                     !.pushed = Append(@, <<user, assistant>>)]
  /\ DesktopIdle
  /\ UNCHANGED http

HistoryInit ==
  /\ Holds(State_new(<<>>, 0))
  /\ api_receiver = <<>>
  /\ worker_alive = TRUE
  /\ now = 0
  /\ last_text_edit = None
  /\ ev = Quiet
  /\ http = NoExchange
  /\ settings = NoSettings
  /\ \E max_pairs \in 1..MaxPairs : history = MessageHistory_new(max_pairs)

HistoryNext == PushPair
HistorySpec == HistoryInit /\ [][HistoryNext]_vars

(* ------------------- push_pair, one iteration at a time ---------------- *)
\* push_pair as the steps it takes: the call, each iteration of its while
\* loop, the two push_back that follow the loop.  max_pairs is any usize the
\* constructor accepts, 0 included.  history also holds where the call is
\* (pc) and the pair it was called with.
\* VecDeque::pop_front: None on an empty deque, which stays empty
pop_front(entries) == IF entries = <<>> THEN <<>> ELSE Tail(entries)

\* the condition of the while loop
at_capacity(entries, max_pairs) == Len(entries) >= max_pairs * 2

\* the body of the while loop
evict_once(entries) == pop_front(pop_front(entries))

PushPairCall ==
  /\ history.pc = "idle"
  /\ Len(history.pushed) < MaxPushes
  /\ \E user \in UserContents : \E assistant \in AssistantContents :
       history' = [history EXCEPT !.pc = "while",
                                  !.pair = <<HistoryEntry("user", user, <<>>),
                                             HistoryEntry("assistant", <<>>, assistant)>>,
                                  !.pushed = Append(@, <<user, assistant>>)]
  /\ DesktopIdle
  /\ UNCHANGED http

EvictStep ==
  /\ history.pc = "while"
  /\ at_capacity(history.entries, history.max_pairs)
  /\ history' = [history EXCEPT !.entries = evict_once(@)]
  /\ DesktopIdle
  /\ UNCHANGED http

PushBack ==
  /\ history.pc = "while"
  /\ ~at_capacity(history.entries, history.max_pairs)
  /\ history' = [history EXCEPT !.entries = @ \o history.pair,
                                !.pc = "idle", !.pair = <<>>]
  /\ DesktopIdle
  /\ UNCHANGED http

PushPairInit ==
  /\ Holds(State_new(<<>>, 0))
  /\ api_receiver = <<>>
  /\ worker_alive = TRUE
  /\ now = 0
  /\ last_text_edit = None
  /\ ev = Quiet
  /\ http = NoExchange
  /\ settings = NoSettings
  /\ \E max_pairs \in 0..MaxPairs :
       history = [entries |-> <<>>, max_pairs |-> max_pairs, pushed |-> <<>>,
                  pc |-> "idle", pair |-> <<>>]

PushPairNext == PushPairCall \/ EvictStep \/ PushBack
PushPairSpec == PushPairInit /\ [][PushPairNext]_vars

(* --------------------------- the egui controller ----------------------- *)
\* GrammyApp of app.rs: one update per frame, a fixed debounce, no
\* pending_recheck.  It has its own request and response types and its own
\* worker thread around the same check_grammar.  The fields it shares by name
\* with the iced State are kept in the same variables (text in editor,
\* current_request_id in current_check_request_id); the others rest.
DEBOUNCE_MS == 800

EguiRequest(text, request_id) == [text |-> text, request_id |-> request_id]

\* fault: a request sent during a flight keeps the id of the flight current
egui_mint_keeps_current(st, request_id) ==
  [st EXCEPT !.REQUEST_COUNTER = fetch_add(@, 1),
             !.is_checking = TRUE,
             !.current_check_request_id = IF @ = None THEN Some(request_id) ELSE @,
             !.status = StatusChecking,
             !.last_checked_text = st.editor]

\* check_text of GrammyApp: the fields written before the send
egui_mint(st, request_id) ==
  [st EXCEPT !.REQUEST_COUNTER = fetch_add(@, 1),
             !.is_checking = TRUE,
             !.current_check_request_id = Some(request_id),
             !.status = StatusChecking,
             !.last_checked_text = st.editor]

\* check_text of GrammyApp
egui_check_text(st, alive) ==
  LET text == st.editor
  IN IF trim_is_empty(text)
     THEN [st EXCEPT !.suggestions = <<>>,
                     !.status = StatusReady,
                     !.last_checked_text = text,
                     !.is_checking = FALSE,
                     !.current_check_request_id = None]
     ELSE IF text = st.last_checked_text THEN st
     ELSE LET request_id == st.REQUEST_COUNTER
              minted == egui_mint(st, request_id)
          IN IF alive
             THEN [minted EXCEPT !.api_sender = Append(@, EguiRequest(text, request_id))]
             ELSE [minted EXCEPT !.status = StatusSendFailed,
                                 !.is_checking = FALSE,
                                 !.current_check_request_id = None]

\* one iteration of the loop of process_api_responses of GrammyApp
egui_handle_response(st, response) ==
  IF st.current_check_request_id # Some(response.request_id) THEN st
  ELSE LET done == [st EXCEPT !.is_checking = FALSE,
                              !.current_check_request_id = None,
                              !.accepted = Append(@, response.request_id)]
       IN IF response.kind = "Success"
          THEN [done EXCEPT !.suggestions = response.suggestions,
                            !.status = suggestions_status(response.suggestions)]
          ELSE [done EXCEPT !.status = response.message]

RECURSIVE egui_drain(_, _)
egui_drain(st, responses) ==
  IF responses = <<>> THEN st
  ELSE egui_drain(egui_handle_response(st, Head(responses)), Tail(responses))

\* process_api_responses of GrammyApp
egui_process_api_responses(st, responses, alive) ==
  LET drained == egui_drain(st, responses)
  IN IF alive THEN drained ELSE [drained EXCEPT !.status = StatusThreadDied]

\* schedule_check
schedule_check(st, time) == [st EXCEPT !.last_edit_time = Some(time)]

\* the debounce block of update
egui_debounce(st, time, alive) ==
  IF st.last_edit_time # None /\ time - Unwrap(st.last_edit_time) >= DEBOUNCE_MS
  THEN egui_check_text([st EXCEPT !.last_edit_time = None], alive)
  ELSE st

\* apply_suggestion of GrammyApp, for a suggestion that has a replacement
egui_apply_suggestion(st, suggestion_id, time) ==
  LET found == {i \in 1..Len(st.suggestions) : st.suggestions[i].id = suggestion_id}
  IN IF found = {} THEN st
     ELSE LET suggestion == st.suggestions[Min(found)]
              text == st.editor
              start == suggestion.offset
              end == suggestion.offset + suggestion.length
          IN IF start > Len(text) \/ end > Len(text)
             THEN schedule_check([st EXCEPT !.status = StatusInvalidRange], time)
             ELSE IF Slice(text, start, end) # suggestion.original
             THEN schedule_check([st EXCEPT !.status = StatusTextChanged], time)
             ELSE LET replacement == Unwrap(suggestion.replacement)
                      new_text == Slice(text, 0, start) \o replacement
                                    \o Slice(text, end, Len(text))
                      delta == Len(replacement) - suggestion.length
                      rest == shift_after(retain_not(st.suggestions, suggestion_id),
                                          suggestion.offset, delta)
                  IN [st EXCEPT !.suggestions = rest,
                                !.editor = new_text,
                                !.last_checked_text = new_text,
                                !.status = suggestions_status(rest)]

\* what the user does in a frame: nothing, Accept on a card, hovering a card,
\* an edit of the text
EguiInputs ==
  {[kind |-> "none", id |-> GoneId, text |-> editor]}
  \cup {[kind |-> k, id |-> suggestions[i].id, text |-> editor] :
          k \in {"accept", "hover"},
          i \in {j \in 1..Len(suggestions) : suggestions[j].replacement # None}}
  \cup {[kind |-> "edit", id |-> GoneId, text |-> t] : t \in Docs \ {editor}}

\* the widgets of update, after the responses and the debounce
egui_widgets(st, input, time) ==
  IF input.kind = "accept" THEN egui_apply_suggestion(st, input.id, time)
  ELSE IF input.kind = "hover" THEN [st EXCEPT !.hovered_suggestion = Some(input.id)]
  ELSE IF input.kind = "edit"
  THEN schedule_check([st EXCEPT !.editor = input.text, !.suggestions = <<>>], time)
  ELSE st

\* eframe::App::update
egui_update(st, responses, time, alive, input) ==
  egui_widgets(egui_debounce(egui_process_api_responses(st, responses, alive), time, alive),
               input, time)

EguiUpdate ==
  \E input \in EguiInputs :
    LET mid == egui_process_api_responses(S, api_receiver, worker_alive)
        r == egui_update(S, api_receiver, now, worker_alive, input)
    IN /\ r.REQUEST_COUNTER <= MaxReq
       /\ Commit(r)
       /\ api_receiver' = <<>>
       /\ last_text_edit' = IF r.editor # editor THEN Some(now) ELSE last_text_edit
       /\ ev' = Event("update", r.editor # editor, Issued(S, r),
                      Len(r.accepted) > Len(accepted),
                      Len(api_receiver) > Len(r.accepted) - Len(accepted),
                      r.last_edit_time = None /\ mid.last_edit_time # None, FALSE)
       /\ UNCHANGED <<http, history, settings, worker_alive, now>>

\* the worker thread of GrammyApp::new: recv, check_grammar, send
egui_worker(request) ==
  {[kind |-> IF r.kind = "GrammarSuccess" THEN "Success" ELSE "Error",
    suggestions |-> r.suggestions, message |-> r.message, request_id |-> r.request_id] :
     r \in check_grammar(request)}

EguiWorkerStep ==
  /\ worker_alive
  /\ api_sender # <<>>
  /\ \E response \in egui_worker(Head(api_sender)) :
       api_receiver' = Append(api_receiver, response)
  /\ api_sender' = Tail(api_sender)
  /\ ev' = Quiet
  /\ UNCHANGED <<http, history, settings, editor, last_checked_text, suggestions,
                 hovered_suggestion, status, debounce_ms, last_edit_time, is_checking,
                 current_check_request_id, pending_recheck, pending_check_text,
                 message_history, REQUEST_COUNTER, worker_alive, now, accepted,
                 last_text_edit>>

\* the thread panics inside check_grammar: no response, both channel ends dropped
EguiWorkerPanic ==
  /\ worker_alive
  /\ api_sender # <<>>
  /\ worker_alive' = FALSE
  /\ api_sender' = <<>>
  /\ ev' = Quiet
  /\ UNCHANGED <<http, history, settings, editor, last_checked_text, suggestions,
                 hovered_suggestion, status, debounce_ms, last_edit_time, is_checking,
                 current_check_request_id, pending_recheck, pending_check_text,
                 message_history, REQUEST_COUNTER, api_receiver, now, accepted,
                 last_text_edit>>

\* a debounce interval passes
EguiAdvance ==
  /\ now < MaxTime * DEBOUNCE_MS
  /\ now' = now + DEBOUNCE_MS
  /\ ev' = Quiet
  /\ UNCHANGED <<http, history, settings, editor, last_checked_text, suggestions,
                 hovered_suggestion, status, debounce_ms, last_edit_time, is_checking,
                 current_check_request_id, pending_recheck, pending_check_text,
                 message_history, REQUEST_COUNTER, api_sender, api_receiver,
                 worker_alive, accepted, last_text_edit>>

EguiInit == Init /\ editor = <<>> /\ debounce_ms = 0
EguiNext == EguiUpdate \/ EguiWorkerStep \/ EguiWorkerPanic \/ EguiAdvance
EguiSpec == EguiInit /\ [][EguiNext]_vars

(* ------------------------- shared notions ------------------------------ *)
Range(seq) == {seq[i] : i \in 1..Len(seq)}

\* the request ids the live suggestions were created under
SuggestionSources == {suggestions[i].id[1] : i \in 1..Len(suggestions)}

\* the state after the responses of this Tick, and at its end
TickMid == process_api_responses(S, api_receiver, now, worker_alive)
TickFin == update_Tick(S, api_receiver, now, worker_alive)

\* the debounce of st has expired at time now
Expired(st) ==
  /\ st.last_edit_time # None
  /\ st.debounce_ms <= NeverThreshold
  /\ now - Unwrap(st.last_edit_time) >= st.debounce_ms

\* the controller state before the k-th queued response is handled
BeforeResponse(k) == drain_responses(S, SubSeq(api_receiver, 1, k - 1), now)

(* ------------------------------- C1 ------------------------------------ *)
\* C1: the live suggestions never come from a stale response: when the live
\* set is not empty, all its members were created under one request id, that
\* response was accepted, and it is the most recently issued request; and no
\* queued response that is stale shows up in the live set after the Tick.
StaleResponseProperty ==
  /\ suggestions # <<>> =>
       /\ SuggestionSources = {REQUEST_COUNTER - 1}
       /\ REQUEST_COUNTER - 1 \in Range(accepted)
  /\ \A k \in 1..Len(api_receiver) :
       current_check_request_id # {api_receiver[k].request_id}
         => api_receiver[k].request_id \notin
              {TickMid.suggestions[i].id[1] : i \in 1..Len(TickMid.suggestions)}

\* live suggestions of request 1 after the worker answered requests 0 and 1
\* and both responses were received: the response of request 0 was dropped
StaleResponseWitness ==
  /\ suggestions # <<>>
  /\ SuggestionSources = {1}
  /\ accepted = <<1>>
  /\ worker_alive /\ api_sender = <<>> /\ api_receiver = <<>>

(* ------------------------------- C2 ------------------------------------ *)
\* C2: at most one grammar request has been sent to the worker and is not
\* yet answered by it.
AtMostOneOutstanding == Len(api_sender) <= 1

(* ------------------------------- C3 ------------------------------------ *)
\* C3: every live suggestion lies inside the document and the document holds
\* its original at its range.
LiveSuggestionInvariant ==
  \A i \in 1..Len(suggestions) :
    LET s == suggestions[i]
    IN /\ s.offset + s.length <= Len(editor)
       /\ Slice(editor, s.offset, s.offset + s.length) = s.original

(* ------------------------------- C4 ------------------------------------ *)
\* C4: a queued grammar response whose request id differs from the tracked
\* id at its turn (also when none is tracked) leaves every field of the
\* controller as it was.
StaleDiscardFrame ==
  \A k \in 1..Len(api_receiver) :
    LET before == BeforeResponse(k)
        after == handle_response(before, api_receiver[k], now)
    IN before.current_check_request_id # {api_receiver[k].request_id}
         => /\ after.suggestions = before.suggestions
            /\ after.status = before.status
            /\ after.is_checking = before.is_checking
            /\ after.current_check_request_id = before.current_check_request_id
            /\ after.pending_recheck = before.pending_recheck
            /\ after.last_edit_time = before.last_edit_time
            /\ after.last_checked_text = before.last_checked_text
            /\ after.message_history = before.message_history
            /\ after = before

\* a Tick has dropped a response while a newer request was tracked
StaleDiscardWitness ==
  /\ ev.msg = "Tick" /\ ev.discarded /\ ~ev.accepted /\ ~ev.issued /\ ~ev.expired
  /\ is_checking /\ current_check_request_id = {1}
  /\ worker_alive /\ Len(api_sender) = 1

(* ------------------------------- C5 ------------------------------------ *)
\* C5: the request ids of the accepted responses are strictly increasing, so
\* none is accepted twice.
AcceptedStrictlyIncreasing ==
  \A i \in 1..Len(accepted) : \A j \in 1..Len(accepted) :
    i < j => accepted[i] < accepted[j]

\* two responses have been accepted
AcceptedTwiceWitness == ev.msg = "Tick" /\ ev.accepted /\ Len(accepted) = 2

(* ------------------------------- C6 ------------------------------------ *)
\* C6: a text-changing edit, a ForceCheck or a debounce expiry while a check
\* is in flight sends nothing, keeps is_checking and the tracked id, and sets
\* pending_recheck.
KeepsInFlight(r) ==
  /\ r.api_sender = api_sender
  /\ r.REQUEST_COUNTER = REQUEST_COUNTER
  /\ r.is_checking
  /\ r.current_check_request_id = current_check_request_id
  /\ r.pending_recheck

InFlightNotCancelled ==
  is_checking =>
    /\ \A new_text \in Docs \ {editor} :
         KeepsInFlight(update_EditorAction(S, new_text, now))
    /\ KeepsInFlight(update_ForceCheck(S, worker_alive))
    /\ (api_receiver = <<>> /\ Expired(S)) => KeepsInFlight(TickFin)

(* ------------------------------- C7 ------------------------------------ *)
\* C7: with auto-check enabled, the Tick that accepts the in-flight response
\* while the document is not blank and differs from last_checked_text also
\* sends a fresh request with the current document text.
RecheckInSameTick ==
  (/\ Len(TickMid.accepted) > Len(accepted)
   /\ ~trim_is_empty(editor)
   /\ editor # last_checked_text
   /\ debounce_ms <= NeverThreshold)
  => /\ Len(TickFin.api_sender) = Len(api_sender) + 1
     /\ TickFin.api_sender[Len(TickFin.api_sender)].text = editor
     /\ TickFin.api_sender[Len(TickFin.api_sender)].request_id = REQUEST_COUNTER
     /\ TickFin.current_check_request_id = {REQUEST_COUNTER}
     /\ TickFin.is_checking

\* a Tick accepted a response and sent the next request at once, before the
\* debounce interval since the last edit had passed
RecheckInSameTickWitness ==
  /\ ev.msg = "Tick" /\ ev.accepted /\ ev.rearmed /\ ev.issued
  /\ debounce_ms = 1
  /\ last_text_edit = {now}
  /\ api_sender # <<>> /\ api_sender[Len(api_sender)].text = editor

(* ------------------------------- C8 ------------------------------------ *)
\* C8: an editor action that changes the text leaves no live suggestion and
\* no hovered suggestion and records last_edit_time = now, in flight or not.
EditClearsFrom(st) ==
  \A new_text \in Docs \ {st.editor} :
    LET r == update_EditorAction(st, new_text, now)
    IN /\ r.editor = new_text
       /\ r.suggestions = <<>>
       /\ r.hovered_suggestion = None
       /\ r.last_edit_time = {now}

EditClearsSuggestions ==
  /\ EditClearsFrom(S)
  /\ (ev.msg = "EditorAction" /\ ev.changed)
       => /\ suggestions = <<>>
          /\ hovered_suggestion = None
          /\ last_edit_time = {now}

\* a text-changing edit has just been made while a check was in flight
EditClearsWitness ==
  ev.msg = "EditorAction" /\ ev.changed /\ is_checking /\ pending_recheck

(* ------------------------------- C9 ------------------------------------ *)
\* C9 as stated: on a debounce expiry with the text equal to
\* last_checked_text nothing is minted or sent and suggestions, status,
\* is_checking and the tracked id stay as they were.
IdempotenceGuardAsStated ==
  (Expired(TickMid) /\ TickMid.editor = TickMid.last_checked_text)
  => /\ TickFin.REQUEST_COUNTER = TickMid.REQUEST_COUNTER
     /\ TickFin.api_sender = TickMid.api_sender
     /\ TickFin.suggestions = TickMid.suggestions
     /\ TickFin.status = TickMid.status
     /\ TickFin.is_checking = TickMid.is_checking
     /\ TickFin.current_check_request_id = TickMid.current_check_request_id

\* C9 amended: on a debounce expiry with the text equal to last_checked_text
\* nothing is minted or sent and is_checking and the tracked id stay as they
\* were; suggestions and status stay as they were when the document is not
\* blank, and become empty and Ready when it is blank.  A request sent on a
\* debounce expiry never carries the last_checked_text held just before.
IdempotenceGuard ==
  /\ (Expired(TickMid) /\ TickMid.editor = TickMid.last_checked_text)
     => /\ TickFin.REQUEST_COUNTER = TickMid.REQUEST_COUNTER
        /\ TickFin.api_sender = TickMid.api_sender
        /\ TickFin.is_checking = TickMid.is_checking
        /\ TickFin.current_check_request_id = TickMid.current_check_request_id
        /\ IF trim_is_empty(TickMid.editor)
           THEN TickFin.suggestions = <<>> /\ TickFin.status = StatusReady
           ELSE /\ TickFin.suggestions = TickMid.suggestions
                /\ TickFin.status = TickMid.status
  /\ Issued(TickMid, TickFin) => TickMid.editor # TickMid.last_checked_text

\* a debounce expired on an unchanged, checked document with live
\* suggestions: nothing was sent and the suggestions are still there
IdempotenceGuardWitness ==
  /\ ev.msg = "Tick" /\ ev.expired /\ ~ev.issued /\ ~ev.accepted
  /\ ~trim_is_empty(editor) /\ editor = last_checked_text
  /\ suggestions # <<>> /\ ~is_checking /\ REQUEST_COUNTER = 1

(* ------------------------------- C10 ----------------------------------- *)
\* C10 as stated: a request sent by a Tick is sent only when the debounce
\* interval has passed since the last text-changing edit.
DebounceAsStated ==
  (ev.msg = "Tick" /\ ev.issued)
  => /\ last_text_edit # None
     /\ now - Unwrap(last_text_edit) >= debounce_ms

\* C10 amended: a request sent by a Tick is sent only when the debounce
\* interval has passed since the last text-changing edit, or by the Tick that
\* accepted the in-flight response with pending_recheck set, which sends at
\* once; a text-changing edit restarts the quiet period.
DebounceRespected ==
  /\ (ev.msg = "Tick" /\ ev.issued)
     => /\ last_text_edit # None
        /\ debounce_ms <= NeverThreshold
        /\ \/ now - Unwrap(last_text_edit) >= debounce_ms
           \/ ev.rearmed
  /\ (ev.msg = "EditorAction" /\ ev.changed)
     => last_edit_time = {now} /\ last_text_edit = {now}
  /\ (last_edit_time # None /\ ~Expired(S) /\ api_receiver = <<>>)
     => ~Issued(S, TickFin)

\* a Tick sent a request after a full quiet period, with no response involved
DebounceWitness ==
  /\ ev.msg = "Tick" /\ ev.issued /\ ev.expired /\ ~ev.accepted /\ ~ev.rearmed
  /\ debounce_ms = 1 /\ now - Unwrap(last_text_edit) = 1

(* ------------------------ Ticks to come -------------------------------- *)
\* how many Ticks in a row the claims about later Ticks look ahead
MaxTicks == 2

\* the times of those Ticks: at once, one time unit later, after any interval
TickTimes == {now, now + 1, now + NeverThreshold + 1}
TickRuns ==
  {ts \in [1..MaxTicks -> TickTimes] :
     \A i \in 1..MaxTicks : \A j \in 1..MaxTicks : i < j => ts[i] <= ts[j]}

\* some Tick of the run sends a request; responses are received by the first
RECURSIVE TicksIssue(_, _, _)
TicksIssue(st, responses, ts) ==
  IF ts = <<>> THEN FALSE
  ELSE LET r == update_Tick(st, responses, Head(ts), worker_alive)
       IN Issued(st, r) \/ TicksIssue(r, <<>>, Tail(ts))

(* ------------------------------- C11 ----------------------------------- *)
\* C11: with auto-check disabled (debounce_ms > 5000), also right after the
\* setting was switched to it in any state, no edit, Tick, response, apply,
\* dismiss or hover sends a request; a request sent under this setting was
\* sent by ForceCheck.
AutoCheckDisabled ==
  LET st == [S EXCEPT !.debounce_ms = NeverThreshold + 1]
  IN /\ \A ts \in TickRuns : ~TicksIssue(st, api_receiver, ts)
     /\ \A new_text \in Docs : ~Issued(st, update_EditorAction(st, new_text, now))
     /\ \A id \in MessageIds :
          /\ ~Issued(st, update_ApplySuggestion(st, id, now))
          /\ ~Issued(st, update_DismissSuggestion(st, id))
          /\ ~Issued(st, update_HoverSuggestion(st, id))
     /\ (debounce_ms > NeverThreshold /\ ev.issued) => ev.msg = "ForceCheck"

\* auto-check is disabled, the document was edited during a check, the
\* response has been accepted, and no request went out
AutoCheckDisabledWitness ==
  /\ debounce_ms > NeverThreshold
  /\ ev.msg = "Tick" /\ ev.accepted /\ ~ev.issued
  /\ ~trim_is_empty(editor) /\ editor # last_checked_text
  /\ last_edit_time # None /\ ~is_checking /\ worker_alive

(* ------------------------------- C12 ----------------------------------- *)
\* C12: handling a grammar error response that carries the tracked id makes
\* its message the status, leaves the live suggestions as they were and ends
\* the in-flight state.
ErrorSurfaced ==
  \A k \in 1..Len(api_receiver) :
    LET before == BeforeResponse(k)
        response == api_receiver[k]
        after == handle_response(before, response, now)
    IN (response.kind = "GrammarError"
        /\ before.current_check_request_id = {response.request_id})
       => /\ after.status = response.message
          /\ after.suggestions = before.suggestions
          /\ ~after.is_checking
          /\ after.current_check_request_id = None

\* a Tick has accepted an error response: its message is the status
ErrorSurfacedWitness ==
  /\ ev.msg = "Tick" /\ ev.accepted /\ ~ev.issued
  /\ status \in ErrorMessages
  /\ ~is_checking /\ current_check_request_id = None /\ suggestions = <<>>

(* ------------------------------- C13 ----------------------------------- *)
\* C13: once a Tick has accepted an error response and left its message as
\* the status, the Ticks that follow send no request, whatever time passes,
\* as long as no edit and no ForceCheck comes in between.
NoAutomaticRetry ==
  (ev.msg = "Tick" /\ ev.accepted /\ status \in ErrorMessages)
  => \A ts \in TickRuns : ~TicksIssue(S, api_receiver, ts)

\* an error was accepted for a document that is still the one checked, with
\* an edit time still recorded: the following Ticks find the debounce expired
NoAutomaticRetryWitness ==
  /\ ev.msg = "Tick" /\ ev.accepted /\ status \in ErrorMessages
  /\ ~trim_is_empty(editor) /\ editor = last_checked_text
  /\ last_edit_time # None /\ debounce_ms = 1 /\ worker_alive

(* ------------------------------- C14 ----------------------------------- *)
\* the last step was an ApplySuggestion rejected as a conflict
ConflictReported ==
  /\ ev.msg = "ApplySuggestion" /\ ~ev.changed
  /\ status \in {StatusInvalidRange, StatusTextChanged}
  /\ last_edit_time = {now}

\* C14: after an ApplySuggestion rejected as a conflict, with the worker
\* running, the Ticks that follow send a new check request for the document.
ConflictTriggersCheck ==
  (ConflictReported /\ worker_alive)
  => \E ts \in TickRuns : TicksIssue(S, api_receiver, ts)

(* ------------------------------- C15 ----------------------------------- *)
\* the span of s is out of the text or does not hold s.original
SpanMismatch(text, s) ==
  \/ s.offset > Len(text)
  \/ s.offset + s.length > Len(text)
  \/ Slice(text, s.offset, s.offset + s.length) # s.original

\* C15: an apply request whose suggestion does not match the text is
\* answered 400 or 409 and returns no new text.
MismatchRejected ==
  (http.endpoint = "apply" /\ SpanMismatch(http.text, http.suggestion))
  => /\ http.code \in {"400 Bad Request", "409 Conflict"}
     /\ http.body_text = <<>>

(* ------------------------------- C16 ----------------------------------- *)
\* the half-open byte ranges [a, b) and [c, d) share a byte
RangesOverlap(a, b, c, d) == a < d /\ c < b /\ a < b /\ c < d

\* every member of rest matches text and none overlaps [from, to)
LiveAndClear(rest, text, from, to) ==
  \A j \in 1..Len(rest) :
    LET s == rest[j]
    IN /\ s.offset + s.length <= Len(text)
       /\ Slice(text, s.offset, s.offset + s.length) = s.original
       /\ ~RangesOverlap(s.offset, s.offset + s.length, from, to)

\* C16: after a successful apply of a member of a normalized suggestion set
\* whose members all match the document, every remaining suggestion matches
\* the new document at its offset and none overlaps the edited region; here
\* for the sets the character-offset mapper returns for a check.
ApplyKeepsOthersLive ==
  (http.endpoint = "check" /\ http.code = "200 OK")
  => \A i \in 1..Len(http.body_matches) :
       LET target == http.body_matches[i]
           applied == api_apply(http.text, target)
           rest == frontend_reconcile(http.body_matches, target)
       IN applied.code = "200 OK"
          => LiveAndClear(rest, applied.body_text, target.offset,
                          target.offset + Len(target.replacement))

(* ------------------------------- C17 ----------------------------------- *)
\* the document text when the suggestions shown were computed
CheckedText == message_history[1].content.text

\* C17: applying a suggestion that is in range, matches the document and has
\* a replacement splices the replacement in at its byte range, removes that
\* suggestion only, adds delta = len(replacement) - length to the offset of
\* every remaining suggestion that starts after it, and leaves the other
\* offsets and every length, original and replacement as they were.
SpliceAndShift ==
  \A i \in 1..Len(suggestions) :
    LET target == suggestions[i]
        r == update_ApplySuggestion(S, target.id, now)
        end == target.offset + target.length
    IN (/\ end <= Len(editor)
        /\ Slice(editor, target.offset, end) = target.original
        /\ target.replacement # None)
       => LET replacement == Unwrap(target.replacement)
              delta == Len(replacement) - target.length
          IN /\ r.editor = Slice(editor, 0, target.offset) \o replacement
                             \o Slice(editor, end, Len(editor))
             /\ Len(r.suggestions) = Len(suggestions) - 1
             /\ \A j \in 1..Len(suggestions) :
                  j # i =>
                    LET s == suggestions[j]
                        kept == r.suggestions[IF j < i THEN j ELSE j - 1]
                    IN /\ kept.id = s.id
                       /\ kept.id # target.id
                       /\ kept.length = s.length
                       /\ kept.original = s.original
                       /\ kept.replacement = s.replacement
                       /\ kept.offset = IF s.offset > target.offset
                                        THEN s.offset + delta ELSE s.offset

\* a suggestion was applied that made the document shorter, and the one left
\* has moved down with the text behind the edit
SpliceAndShiftWitness ==
  /\ ev.msg = "ApplySuggestion" /\ ev.changed
  /\ Len(editor) < Len(CheckedText)
  /\ Len(suggestions) = 1
  /\ suggestions[1].offset < Unwrap(find(CheckedText, suggestions[1].original))
  /\ Slice(editor, suggestions[1].offset, suggestions[1].offset + suggestions[1].length)
       = suggestions[1].original

(* ------------------------------- C18 ----------------------------------- *)
\* the suggestion s has no replacement and its span holds its original text
CommentOnlyMatching(s) ==
  /\ s.replacement = None
  /\ ~SpanMismatch(editor, s)

\* C18: ApplySuggestion with an id that no live suggestion carries, or with
\* the id of a comment-only suggestion whose span matches the document,
\* leaves the document, the suggestions, last_checked_text and last_edit_time
\* as they were, sends no request, and the Ticks that follow send a request
\* only if they would have without it.
ApplyNoOp ==
  \A id \in MessageIds :
    LET found == {i \in 1..Len(suggestions) : suggestions[i].id = id}
        r == update_ApplySuggestion(S, id, now)
    IN (found = {} \/ CommentOnlyMatching(suggestions[Min(found)]))
       => /\ r.editor = editor
          /\ r.suggestions = suggestions
          /\ r.last_checked_text = last_checked_text
          /\ r.last_edit_time = last_edit_time
          /\ r.pending_recheck = pending_recheck
          /\ ~Issued(S, r)
          /\ \A ts \in TickRuns :
               TicksIssue(r, api_receiver, ts) = TicksIssue(S, api_receiver, ts)

\* an ApplySuggestion came in while the only live suggestion was a matching
\* comment-only one: nothing is scheduled and the suggestion is still shown
ApplyNoOpWitness ==
  /\ ev.msg = "ApplySuggestion" /\ ~ev.changed
  /\ Len(suggestions) = 1 /\ CommentOnlyMatching(suggestions[1])
  /\ last_edit_time = None /\ ~is_checking
  /\ status = suggestions_status(suggestions)

(* ------------------------------- C19 ----------------------------------- *)
\* the suggestion s can be applied to the document
Applicable(s) ==
  /\ ~SpanMismatch(editor, s)
  /\ s.replacement # None

\* C19: a successful apply leaves last_checked_text equal to the new
\* document, and the Ticks that follow it send no request, whatever time
\* passes, as long as no edit and no ForceCheck comes in between.
ApplyIsNotRechecked ==
  /\ \A i \in 1..Len(suggestions) :
       LET r == update_ApplySuggestion(S, suggestions[i].id, now)
       IN Applicable(suggestions[i])
          => /\ r.last_checked_text = r.editor
             /\ \A ts \in TickRuns : ~TicksIssue(r, api_receiver, ts)
  /\ (ev.msg = "ApplySuggestion" /\ ev.changed)
     => /\ last_checked_text = editor
        /\ \A ts \in TickRuns : ~TicksIssue(S, api_receiver, ts)

\* a suggestion was applied while an edit time was recorded, so that the
\* next Tick finds the debounce expired and looks at the document again
ApplyIsNotRecheckedWitness ==
  /\ ev.msg = "ApplySuggestion" /\ ev.changed
  /\ ~trim_is_empty(editor) /\ last_checked_text = editor
  /\ last_edit_time # None /\ debounce_ms <= 1 /\ worker_alive /\ ~is_checking

(* ------------------------------- C20 ----------------------------------- *)
\* no two members of list have ranges that share a byte
NoOverlap(list) ==
  \A i \in 1..Len(list) : \A j \in 1..Len(list) :
    i # j => ~RangesOverlap(list[i].offset, list[i].offset + list[i].length,
                            list[j].offset, list[j].offset + list[j].length)

\* n starts inside w, after its start, and ends no later than w
Nested(n, w) ==
  /\ w.offset < n.offset
  /\ n.offset < w.offset + w.length
  /\ n.offset + n.length <= w.offset + w.length

\* s is a member of list
Kept(list, s) == \E i \in 1..Len(list) : list[i].id = s.id

\* the answer of a model that quotes each span of matches instead of giving
\* its character indices, as the desktop client expects it
Quoted(text, matches) ==
  [i \in 1..Len(matches) |->
     LET m == matches[i]
         bs == boundaries(text)
     IN [original |-> IF m.start <= m.end /\ m.end <= Len(bs) - 1
                      THEN Slice(text, bs[m.start + 1], bs[m.end + 1])
                      ELSE <<>>,
         replacement |-> Some(m.replacement)]]

\* the spans the two mappers find for the last check, before normalization
BackendMapped == backend_map_matches(http.text, http.matches, <<>>)
DesktopMapped == map_matches(http.text, Quoted(http.text, http.matches), <<>>, 0)
DesktopNormalized ==
  convert_matches_to_suggestions(http.text, Quoted(http.text, http.matches), 0)

\* of two mapped spans of which one is nested in the other, the normalized
\* list out holds the wider and not the nested one
WiderAlwaysWins(mapped, out) ==
  \A i \in 1..Len(mapped) : \A j \in 1..Len(mapped) :
    Nested(mapped[i], mapped[j])
    => Kept(out, mapped[j]) /\ ~Kept(out, mapped[i])

\* the nested span is dropped if the wider one is kept, and the wider one is
\* kept if the two are all there is
WiderWinsIfKept(mapped, out) ==
  \A i \in 1..Len(mapped) : \A j \in 1..Len(mapped) :
    Nested(mapped[i], mapped[j])
    => /\ Kept(out, mapped[j]) => ~Kept(out, mapped[i])
       /\ Len(mapped) = 2 => Kept(out, mapped[j])

\* C20 as stated: the normalizers return no two overlapping ranges, and a
\* span nested in an earlier-starting wider span is dropped and the wider kept.
NormalizedAsStated ==
  (http.endpoint = "check" /\ http.code = "200 OK")
  => /\ NoOverlap(http.body_matches)
     /\ NoOverlap(DesktopNormalized)
     /\ WiderAlwaysWins(BackendMapped, http.body_matches)
     /\ WiderAlwaysWins(DesktopMapped, DesktopNormalized)

\* C20: the normalizers return no two suggestions whose ranges overlap; a
\* span nested in an earlier-starting wider span is dropped whenever the wider
\* span is kept, and the wider span is kept when the two are the whole input.
NormalizedNoOverlap ==
  (http.endpoint = "check" /\ http.code = "200 OK")
  => /\ NoOverlap(http.body_matches)
     /\ NoOverlap(DesktopNormalized)
     /\ WiderWinsIfKept(BackendMapped, http.body_matches)
     /\ WiderWinsIfKept(DesktopMapped, DesktopNormalized)

\* a check mapped two spans, the second nested in the first, and both
\* normalizers kept the wider one only
NormalizedNoOverlapWitness ==
  /\ http.endpoint = "check" /\ http.code = "200 OK"
  /\ Len(BackendMapped) = 2 /\ Nested(BackendMapped[2], BackendMapped[1])
  /\ http.body_matches = <<BackendMapped[1]>>
  /\ Len(DesktopMapped) = 2 /\ Nested(DesktopMapped[2], DesktopMapped[1])
  /\ DesktopNormalized = <<DesktopMapped[1]>>

(* ------------------------------- C21 ----------------------------------- *)
\* the sort and the sweep that end the two mappers, on a list of suggestions
normalize(list) == filter_overlaps(sort_by_offset(list, <<>>), 0, <<>>)
backend_normalize(list) == backend_filter(sort_by_offset(list, <<>>), 0, <<>>)

\* C21: normalizing a normalized list gives the same suggestions in the same
\* order, for the lists either mapper hands to its normalizer.
NormalizeIdempotent ==
  (http.endpoint = "check" /\ http.code = "200 OK")
  => /\ backend_normalize(BackendMapped) = http.body_matches
     /\ backend_normalize(http.body_matches) = http.body_matches
     /\ normalize(DesktopMapped) = DesktopNormalized
     /\ normalize(DesktopNormalized) = DesktopNormalized

\* a check whose mapped spans came out of order and overlapping: the
\* normalizer reordered them, dropped one and kept two
NormalizeIdempotentWitness ==
  /\ http.endpoint = "check" /\ http.code = "200 OK"
  /\ Len(BackendMapped) = 3 /\ Len(http.body_matches) = 2
  /\ http.body_matches[1].id # BackendMapped[1].id
  /\ BackendMapped[1].offset > BackendMapped[2].offset

(* ------------------------------- C22 ----------------------------------- *)
\* the span of s lies in text and holds s.original
SpanMatches(text, s) ==
  /\ s.offset + s.length <= Len(text)
  /\ Slice(text, s.offset, s.offset + s.length) = s.original

\* C22: every suggestion the literal-substring mapper returns lies within the
\* text that was sent and its span holds its original there.
MappedSpansMatch ==
  http.endpoint = "check_grammar"
  => \A i \in 1..Len(http.body_matches) : SpanMatches(http.text, http.body_matches[i])

(* ------------------------------- C23 ----------------------------------- *)
\* the number of bytes of the scalar value that starts with byte lead
CharWidth(lead) ==
  IF lead = "e1" THEN 2 ELSE IF lead = "t1" THEN 3 ELSE IF lead = "f1" THEN 4 ELSE 1

\* the scalar values of text, each as its bytes
RECURSIVE Decode(_)
Decode(text) ==
  IF text = <<>> THEN <<>>
  ELSE LET w == CharWidth(text[1])
       IN <<SubSeq(text, 1, w)>> \o Decode(SubSeq(text, w + 1, Len(text)))

\* the bytes of a sequence of scalar values
RECURSIVE Encode(_)
Encode(chars) == IF chars = <<>> THEN <<>> ELSE Head(chars) \o Encode(Tail(chars))

\* C23: for an in-range pair of character indices whose replacement differs
\* from the characters addressed, the character-offset mapper returns one
\* suggestion: its offset is the byte position of character start, its length
\* the byte size of characters start..end, its original those characters, and
\* both ends of its byte range are character boundaries.
CharOffsetRoundTrip ==
  (http.endpoint = "check" /\ http.code = "200 OK")
  => \A i \in 1..Len(http.matches) :
       LET m == http.matches[i]
           chars == Decode(http.text)
           addressed == Encode(SubSeq(chars, m.start + 1, m.end))
           before == Encode(SubSeq(chars, 1, m.start))
           got == backend_map_match(http.text, m, <<>>)
       IN (m.start <= m.end /\ m.end <= Len(chars) /\ addressed # m.replacement)
          => /\ Len(got) = 1
             /\ got[1].offset = Len(before)
             /\ got[1].length = Len(addressed)
             /\ got[1].original = addressed
             /\ got[1].replacement = m.replacement
             /\ Slice(http.text, got[1].offset, got[1].offset + got[1].length)
                  = addressed
             /\ is_char_boundary(http.text, got[1].offset)
             /\ is_char_boundary(http.text, got[1].offset + got[1].length)

\* a check answered with one pair that addresses the second character of a
\* text of two multi-byte characters: the suggestion's offset and length are
\* larger than the indices
CharOffsetRoundTripWitness ==
  /\ http.endpoint = "check" /\ http.code = "200 OK"
  /\ Len(http.matches) = 1 /\ Len(http.body_matches) = 1
  /\ http.matches[1].start = 1 /\ http.matches[1].end = 2
  /\ http.body_matches[1].offset > 1 /\ http.body_matches[1].length > 1
  /\ Len(Decode(http.text)) = 2

(* ------------------------------- C24 ----------------------------------- *)
\* the pair m addresses characters of text
InRange(text, m) == m.start <= m.end /\ m.end <= Len(Decode(text))

\* the answer of the last check without the pairs that are out of range
InRangeMatches ==
  LET Ok(m) == InRange(http.text, m)
  IN SelectSeq(http.matches, Ok)

\* C24: a pair with start > end or with end past the character count adds no
\* suggestion, whatever was mapped before it, and the batch is mapped and
\* answered as if the pair had not been in it.
OutOfRangeSkipped ==
  (http.endpoint = "check" /\ http.matches # <<>>)
  => /\ http.code = "200 OK"
     /\ \A i \in 1..Len(http.matches) :
          LET out == backend_map_matches(http.text, SubSeq(http.matches, 1, i - 1), <<>>)
          IN ~InRange(http.text, http.matches[i])
             => backend_map_match(http.text, http.matches[i], out) = out
     /\ BackendMapped = backend_map_matches(http.text, InRangeMatches, <<>>)
     /\ http.body_matches = convert_llm_matches_to_suggestions(http.text, InRangeMatches)

\* a check answered with a pair in range, one with start > end and one in
\* range again: the answer holds the suggestions of the first and the third
OutOfRangeSkippedWitness ==
  /\ http.endpoint = "check" /\ http.code = "200 OK"
  /\ Len(http.matches) = 3
  /\ InRange(http.text, http.matches[1])
  /\ http.matches[2].start > http.matches[2].end
  /\ InRange(http.text, http.matches[3])
  /\ Len(http.body_matches) = 2
  /\ http.body_matches[1].original # <<>> /\ http.body_matches[2].original # <<>>

(* ------------------------------- C25 ----------------------------------- *)
\* the byte indices of text at which a text equal to pat but for case starts
CaseInsensitiveHits(text, pat) ==
  {i \in 0..Len(text) :
     \E j \in i..Len(text) : to_lowercase(Slice(text, i, j)) = to_lowercase(pat)}

\* the mapper neither drops m as empty nor as a no-op
Mappable(m) ==
  /\ m.original # <<>>
  /\ m.replacement = None
     \/ (Unwrap(m.replacement) # <<>> /\ Unwrap(m.replacement) # m.original)

\* C25: the offset of the suggestion made of a match is the smallest byte
\* index at which its original occurs in the document; without such an
\* occurrence, the smallest index at which it occurs but for case; without
\* that either, no suggestion is made.
FirstOccurrenceOffset ==
  http.endpoint = "check_grammar"
  => \A i \in 1..Len(http.matches) :
       LET m == http.matches[i]
           got == map_match(http.text, m, <<>>, 0)
           exact == find(http.text, m.original)
           loose == CaseInsensitiveHits(http.text, m.original)
       IN Mappable(m)
          => IF exact # None
             THEN Len(got) = 1 /\ got[1].offset = Unwrap(exact)
             ELSE IF loose # {}
             THEN Len(got) = 1 /\ got[1].offset = Min(loose)
             ELSE got = <<>>

(* ------------------------------- C26 ----------------------------------- *)
\* C26: the literal-substring mapper makes no suggestion of a match whose
\* original is empty, whose replacement is present but empty, or whose
\* replacement equals its original; of a match without replacement whose
\* original occurs in the document it makes a suggestion with replacement
\* None, whatever was mapped before it.
DegenerateDropped ==
  http.endpoint = "check_grammar"
  => \A i \in 1..Len(http.matches) :
       LET m == http.matches[i]
           acc == map_matches(http.text, SubSeq(http.matches, 1, i - 1), <<>>, 0)
           got == map_match(http.text, m, acc, 0)
       IN /\ (\/ m.original = <<>>
              \/ m.replacement = Some(<<>>)
              \/ m.replacement = Some(m.original))
             => got = acc
          /\ (m.replacement = None /\ m.original # <<>>
              /\ find(http.text, m.original) # None)
             => /\ Len(got) = Len(acc) + 1
                /\ SubSeq(got, 1, Len(acc)) = acc
                /\ got[Len(got)].replacement = None
                /\ got[Len(got)].original = m.original
                /\ got[Len(got)].length = Len(m.original)
                /\ got[Len(got)].offset = Unwrap(find(http.text, m.original))

\* an answer with a match whose replacement is empty and a comment on a text
\* of the document: only the comment became a suggestion
DegenerateDroppedWitness ==
  /\ http.endpoint = "check_grammar"
  /\ Len(http.matches) = 2
  /\ http.matches[1].original # <<>> /\ http.matches[1].replacement = Some(<<>>)
  /\ find(http.text, http.matches[1].original) # None
  /\ http.matches[2].replacement = None
  /\ Len(http.body_matches) = 1
  /\ http.body_matches[1].replacement = None
  /\ http.body_matches[1].original = http.matches[2].original

(* ------------------------------- C27 ----------------------------------- *)
\* the status texts that report an internal error
InternalErrors == {StatusThreadDied, StatusSendFailed}

\* C27: once the worker has terminated, the status at the end of every Tick
\* reports an internal error.
DeadWorkerSurfaced ==
  (ev.msg = "Tick" /\ ~worker_alive) => status \in InternalErrors

(* ------------------------------- C28 ----------------------------------- *)
\* C28: after k push_pair calls on a MessageHistory created with max_pairs
\* N >= 1, the entries are the last min(k, N) pushed pairs in push order, each
\* a user entry followed by its assistant entry, and never more than 2 * N.
LastPairsKept ==
  LET k == Len(history.pushed)
      N == history.max_pairs
      n == IF k < N THEN k ELSE N
  IN /\ Len(history.entries) = 2 * n
     /\ Len(history.entries) <= 2 * N
     /\ \A j \in 1..n :
          LET pair == history.pushed[k - n + j]
          IN /\ history.entries[2 * j - 1] = HistoryEntry("user", pair[1], <<>>)
             /\ history.entries[2 * j] = HistoryEntry("assistant", <<>>, pair[2])

\* three different pairs were pushed to a history of two: the first is gone,
\* the second and the third are held in this order
LastPairsKeptWitness ==
  /\ history.max_pairs = 2
  /\ Len(history.pushed) = 3
  /\ history.pushed[1] # history.pushed[2] /\ history.pushed[2] # history.pushed[3]
  /\ history.pushed[1] # history.pushed[3]
  /\ Len(history.entries) = 4
  /\ history.entries[1].content.text = history.pushed[2][1]
  /\ history.entries[3].content.text = history.pushed[3][1]

(* ------------------------------- C29 ----------------------------------- *)
\* C29: pending_recheck is set only while a check is in flight, and a Tick
\* that accepted the response of the check in flight leaves it cleared.
PendingRecheckCleared ==
  /\ pending_recheck => is_checking
  /\ (ev.msg = "Tick" /\ ev.accepted /\ ~ev.issued) => ~pending_recheck

(* ------------------------------- C30 ----------------------------------- *)
\* a ForceCheck came in during the check in flight and the response to that
\* check is waiting to be received
ForcedDuringFlight ==
  /\ is_checking /\ pending_recheck /\ status = StatusRechecking
  /\ \E k \in 1..Len(api_receiver) :
       current_check_request_id = {api_receiver[k].request_id}

\* C30: a ForceCheck received while a check is in flight is followed, once
\* the response to that check has been processed, by a new request for the
\* document, whether or not its text changed and for every debounce setting.
ForceCheckNotLost ==
  (ForcedDuringFlight /\ worker_alive /\ ~trim_is_empty(editor))
  => \E ts \in TickRuns : TicksIssue(S, api_receiver, ts)

(* ------------------------------- C32 ----------------------------------- *)
\* the order a stable sort by offset puts the members of xs in: the
\* permutation that is ascending by offset and, within an offset, by position
StableOrder(xs) ==
  CHOOSE p \in [1..Len(xs) -> 1..Len(xs)] :
    \A i \in 1..Len(xs) : \A j \in 1..Len(xs) :
      i < j => \/ xs[p[i]].offset < xs[p[j]].offset
               \/ xs[p[i]].offset = xs[p[j]].offset /\ p[i] < p[j]
ReferenceSorted(xs) == [i \in 1..Len(xs) |-> xs[StableOrder(xs)[i]]]

\* the positions of sorted that the sweep keeps: i is kept iff it starts at
\* or after the end of the nearest kept position before it (0 if none)
ReferenceKept(sorted) ==
  CHOOSE K \in SUBSET (1..Len(sorted)) :
    \A i \in 1..Len(sorted) :
      LET prev == {k \in K : k < i}
          last == CHOOSE k \in prev : \A x \in prev : x <= k
          last_end == IF prev = {} THEN 0
                      ELSE sorted[last].offset + sorted[last].length
      IN i \in K <=> sorted[i].offset >= last_end

\* the members of sorted at the positions K, in their order
Pick(sorted, K) ==
  [j \in 1..Cardinality(K) |->
     sorted[CHOOSE k \in K : Cardinality({x \in K : x <= k}) = j]]

ReferenceNormalized(xs) ==
  LET sorted == ReferenceSorted(xs) IN Pick(sorted, ReferenceKept(sorted))

\* out is ascending by offset and, unless xs is empty, starts with the first
\* member of the sorted xs
SortedFromFirst(xs, out) ==
  /\ \A i \in 1..Len(out) : \A j \in 1..Len(out) :
       i < j => out[i].offset <= out[j].offset
  /\ xs # <<>> => (out # <<>> /\ out[1] = ReferenceSorted(xs)[1])

\* C32: the normalizer returns what a stable sort by offset followed by the
\* last_end sweep returns: a sub-list of the sorted input, ascending by
\* offset, that starts with the first member of the sorted input.
NormalizedIsReference ==
  (http.endpoint = "check" /\ http.code = "200 OK")
  => /\ sort_by_offset(BackendMapped, <<>>) = ReferenceSorted(BackendMapped)
     /\ http.body_matches = ReferenceNormalized(BackendMapped)
     /\ SortedFromFirst(BackendMapped, http.body_matches)
     /\ sort_by_offset(DesktopMapped, <<>>) = ReferenceSorted(DesktopMapped)
     /\ DesktopNormalized = ReferenceNormalized(DesktopMapped)
     /\ SortedFromFirst(DesktopMapped, DesktopNormalized)

\* a check whose first two mapped spans start at the same offset and whose
\* third starts before them: all three are returned, the third first, the
\* two of the tie in the order they were given
NormalizedIsReferenceWitness ==
  /\ http.endpoint = "check" /\ http.code = "200 OK"
  /\ Len(BackendMapped) = 3 /\ Len(http.body_matches) = 3
  /\ BackendMapped[1].offset = BackendMapped[2].offset
  /\ BackendMapped[3].offset < BackendMapped[1].offset
  /\ http.body_matches[1].id = BackendMapped[3].id
  /\ http.body_matches[2].id = BackendMapped[1].id
  /\ http.body_matches[3].id = BackendMapped[2].id


(* ------------------------- request identifiers ------------------------- *)
\* every request id the controller, the channel or the worker still holds
IdsInUse ==
  {api_sender[i].request_id : i \in 1..Len(api_sender)}
  \cup {api_receiver[i].request_id :
          i \in {k \in 1..Len(api_receiver) :
                   api_receiver[k].kind \notin {"ModelsSuccess", "ModelsError"}}}
  \cup current_check_request_id \cup settings.current_test_request_id
  \cup Range(accepted)

\* the ids of the requests a step puts on the channel
SentIds ==
  {api_sender'[i].request_id : i \in 1..Len(api_sender')}
  \ {api_sender[i].request_id : i \in 1..Len(api_sender)}

\* C33: the request ids come from one counter shared by the grammar check, the
\* connection test and the model fetch: the counter never goes back, a step
\* that sends a request sends it under the value the counter had and leaves
\* the counter higher, so every id held anywhere is below the counter, the
\* ids waiting on the channel are strictly increasing and no id is used twice.
RequestIdsFresh ==
  /\ [](\A id \in IdsInUse : id < REQUEST_COUNTER)
  /\ [](\A i, j \in 1..Len(api_sender) :
          i < j => api_sender[i].request_id < api_sender[j].request_id)
  /\ [][/\ REQUEST_COUNTER' >= REQUEST_COUNTER
        /\ SentIds \subseteq {REQUEST_COUNTER}
        /\ SentIds # {} => REQUEST_COUNTER' > REQUEST_COUNTER
        /\ current_check_request_id' \subseteq current_check_request_id
                                                \cup {REQUEST_COUNTER}
        /\ settings'.current_test_request_id \subseteq
              settings.current_test_request_id \cup {REQUEST_COUNTER}]_vars

\* requests of two minting sites wait on the channel, a third id is in use
RequestIdsFreshWitness ==
  /\ \E i, j \in 1..Len(api_sender) :
       /\ api_sender[i].job = "Grammar"
       /\ api_sender[j].job \in {"TestConnection", "FetchModels"}
  /\ REQUEST_COUNTER = MaxReq

(* ------------------------- the worker's answers ------------------------ *)
\* the step takes requests off the channel
TakesRequest == Len(api_sender') < Len(api_sender)

\* the step takes exactly the oldest request and sends one response for it,
\* which goes behind the responses already waiting
AnswersHead ==
  /\ api_sender' = Tail(api_sender)
  /\ Len(api_receiver') = Len(api_receiver) + 1
  /\ SubSeq(api_receiver', 1, Len(api_receiver)) = api_receiver
  /\ LET request == Head(api_sender)
         response == api_receiver'[Len(api_receiver')]
     IN request.job = "Grammar" =>
          /\ response.kind \in GrammarKinds
          /\ response.request_id = request.request_id

\* C34: the worker takes the requests one at a time in the order received and
\* sends, for every grammar request it takes, exactly one GrammarSuccess or
\* GrammarError with the id of that request, behind the responses already sent.
WorkerAnswersEach == [][TakesRequest => AnswersHead]_vars

(* --------------------------- blank documents --------------------------- *)
\* no grammar request on the channel is for a blank text
NoBlankRequest ==
  \A i \in 1..Len(api_sender) :
    api_sender[i].job = "Grammar" => ~trim_is_empty(api_sender[i].text)

\* r, reached from the current state, discards what the requests still on the
\* channel will be answered with and the responses in waiting
DiscardsInFlight(r, waiting) ==
  /\ \A i \in 1..Len(api_sender) :
       api_sender[i].job = "Grammar" =>
         \A response \in check_grammar(api_sender[i]) :
           handle_response(r, response, now) = r
  /\ \A i \in 1..Len(waiting) :
       waiting[i].kind \in GrammarKinds => handle_response(r, waiting[i], now) = r

\* r is the current state after the reset a blank document causes
BlankReset(r, waiting) ==
  /\ r.api_sender = api_sender
  /\ r.REQUEST_COUNTER = REQUEST_COUNTER
  /\ r.suggestions = <<>>
  /\ r.status = StatusReady
  /\ r.last_checked_text = editor
  /\ ~r.is_checking
  /\ r.current_check_request_id = None
  /\ DiscardsInFlight(r, waiting)

\* C35 as stated: no request is ever sent for a blank document, and a debounce
\* expiry or a ForceCheck on a blank document sends nothing, clears the
\* suggestions, shows Ready, records the document as checked and ends the
\* flight so that the response still to come is discarded.
BlankResetsAlways ==
  /\ NoBlankRequest
  /\ trim_is_empty(editor) =>
       /\ BlankReset(update_ForceCheck(S, worker_alive), api_receiver)
       /\ Expired(TickMid) => BlankReset(TickFin, <<>>)

\* C35: no request is ever sent for a blank document.  A debounce expiry, and
\* a ForceCheck while no check is in flight, on a blank document send nothing,
\* clear the suggestions, show Ready, record the document as checked and end
\* the flight so that the response still to come is discarded.  A ForceCheck
\* during a flight only sets pending_recheck and shows "Rechecking...".
BlankResetsOutsideFlight ==
  /\ NoBlankRequest
  /\ trim_is_empty(editor) =>
       /\ ~is_checking => BlankReset(update_ForceCheck(S, worker_alive), api_receiver)
       /\ is_checking =>
            update_ForceCheck(S, worker_alive) =
              [S EXCEPT !.pending_recheck = TRUE, !.status = StatusRechecking]
       /\ Expired(TickMid) => BlankReset(TickFin, <<>>)

\* the debounce expires on a blank document while a request is in flight
BlankResetsOutsideFlightWitness ==
  /\ trim_is_empty(editor)
  /\ Expired(TickMid)
  /\ TickMid.is_checking
  /\ api_sender # <<>>
  /\ suggestions = <<>>

(* ------------------------ checking and suggestions --------------------- *)
\* C36: while a check is in flight no suggestion is shown.
CheckingShowsNothing == is_checking => suggestions = <<>>

\* a check is in flight after the suggestions of an earlier check were shown
CheckingShowsNothingWitness ==
  /\ is_checking
  /\ accepted # <<>>
  /\ message_history # <<>>
  /\ \E i \in 1..Len(message_history) :
       /\ message_history[i].role = "assistant"
       /\ message_history[i].content.matches # <<>>

\* C40: a check is in flight exactly when a request id is current.
CheckingIffCurrentId == is_checking <=> current_check_request_id # None

\* both sides seen: a flight with its id, and a flight ended by a blank document
\* while its request is still on the channel
CheckingIffCurrentIdWitness ==
  /\ ~is_checking
  /\ current_check_request_id = None
  /\ api_sender # <<>>
  /\ worker_alive
  /\ trim_is_empty(editor)
  /\ last_checked_text = editor

(* ------------------------------ dismissal ------------------------------ *)
\* st with a check in flight or not
InFlight(st, flight) ==
  IF flight
  THEN [st EXCEPT !.is_checking = TRUE, !.current_check_request_id = Some(0),
                  !.status = StatusChecking]
  ELSE st

\* DismissSuggestion(id) on st removes the suggestions with the id and nothing
\* else, sends and schedules nothing, writes the status only outside a flight
DismissFrame(st, id) ==
  LET r == update_DismissSuggestion(st, id)
  IN /\ r.suggestions = SelectSeq(st.suggestions, LAMBDA s : s.id # id)
     /\ r.editor = st.editor
     /\ r.last_checked_text = st.last_checked_text
     /\ r.last_edit_time = st.last_edit_time
     /\ r.is_checking = st.is_checking
     /\ r.current_check_request_id = st.current_check_request_id
     /\ r.pending_recheck = st.pending_recheck
     /\ r.pending_check_text = st.pending_check_text
     /\ r.message_history = st.message_history
     /\ r.debounce_ms = st.debounce_ms
     /\ r.api_sender = st.api_sender
     /\ r.REQUEST_COUNTER = st.REQUEST_COUNTER
     /\ \A ts \in TickRuns : TicksIssue(r, <<>>, ts) = TicksIssue(st, <<>>, ts)
     /\ st.is_checking => r.status = st.status
     /\ ~st.is_checking => r.status = suggestions_status(r.suggestions)

\* C37: DismissSuggestion(id) removes exactly the suggestions with that id and
\* leaves the text, the other suggestions and their order, last_checked_text,
\* last_edit_time, is_checking, current_check_request_id and pending_recheck
\* as they are; it sends and schedules no check, and it writes the status
\* only when no check is in flight.  The handler is also tried on the state
\* with a flight put in, which the session itself reaches only with an empty
\* list.
DismissRemovesOnlyThat ==
  \A id \in MessageIds : \A flight \in BOOLEAN : DismissFrame(InFlight(S, flight), id)

\* one of two suggestions was dismissed: the check had found a comment and a
\* replacement, the comment is gone, the text is the checked one
DismissRemovesOnlyThatWitness ==
  /\ Len(suggestions) = 1
  /\ suggestions[1].replacement # None
  /\ status = suggestions_status(suggestions)
  /\ Len(message_history) = 2
  /\ Len(message_history[2].content.matches) = 2
  /\ \E i \in 1..2 : message_history[2].content.matches[i].replacement = None
  /\ editor = message_history[1].content.text

(* ----------------------- push_pair comes to an end --------------------- *)
\* C38: push_pair terminates for every history: each iteration of its loop
\* leaves the deque shorter, so the loop condition fails after finitely many
\* iterations, also for max_pairs = 0 and for an empty deque.
PushPairTerminates ==
  (history.pc = "while" /\ at_capacity(history.entries, history.max_pairs)) =>
    Len(evict_once(history.entries)) < Len(history.entries)

(* ---------------------- the egui variant's flights --------------------- *)
\* the id of the request sent last: check_text is the one minting site here
LatestMinted == REQUEST_COUNTER - 1

\* a step applies a response only if it is the one of the request sent last
OnlyLatestApplied ==
  /\ accepted' # accepted => accepted' = Append(accepted, LatestMinted)
  /\ accepted' = accepted =>
       \/ suggestions' = suggestions
       \/ suggestions' = <<>>
       \/ ev'.msg = "update" /\ Len(suggestions') < Len(suggestions)

\* C39 as stated: in the egui variant only the response of the request sent
\* last is applied to the suggestions and the status, and is_checking falls
\* only when that response is processed or the text is found blank.
EguiNewestWins ==
  [][/\ OnlyLatestApplied
     /\ (is_checking /\ ~is_checking') =>
          accepted' # accepted \/ trim_is_empty(editor)]_vars

(* --------------------- the final text gets checked --------------------- *)
\* no check is in flight and the document is the text that was checked
Checked == ~is_checking /\ last_checked_text = editor

\* C31: with auto-check enabled, Ticks arriving and the worker answering, an
\* edited document whose final text is not yet the checked one, or has a check
\* in flight, gets to a state with no check in flight and last_checked_text
\* equal to the document, unless the text changes again first; and such a
\* state is left only by a change of the text or by a ForceCheck, which starts
\* a check of its own.  So a run whose text stops changing, and in which the
\* user stops forcing checks, reaches such a state and stays there.
FinalTextChecked ==
  /\ (last_text_edit # None /\ ~Checked) ~> (Checked \/ ev.changed)
  /\ [][(Checked /\ editor' = editor /\ ev'.msg # "ForceCheck") => Checked']_vars

\* the text was changed during a flight, both responses were taken, and the
\* text checked last is the document
FinalTextCheckedWitness ==
  /\ Checked
  /\ Len(accepted) = 2
  /\ Len(message_history) = 4
  /\ message_history[1].content.text # message_history[3].content.text
  /\ message_history[3].content.text = editor
  /\ last_text_edit # None
====
